---------------------------- MODULE Spec2Model ----------------------------
(***************************************************************************)
(* Conversational intent engine of the TODO chatbot backend:               *)
(*   - IntentClassifier      (backend/src/services/intent_classifier.py)   *)
(*   - ContextManager        (backend/src/ai_agent/context_manager.py)     *)
(*                                                                         *)
(* A user message is a sequence of lower-case word tokens separated by     *)
(* single blanks; the classifier's regular expressions are translated to   *)
(* predicates over such token sequences.  The empty sequence stands for    *)
(* an empty or whitespace-only message.                                    *)
(***************************************************************************)
EXTENDS Integers, Sequences, FiniteSets, TLC

VARIABLES
    current_intent,   \* Conversation.current_intent column
    state_data,       \* Conversation.state_data column (None or a dict)
    target_task_id,   \* Conversation.target_task_id column
    pc,               \* "idle" (between turns) or "returned" (an engine call has returned to the caller)
    call,             \* which engine function returned last
    message,          \* the user message of the last classify / collect call
    intent_result,    \* IntentResult of the last classify call (None before the first)
    current_state,    \* state dict the caller passed to the last engine call
    arg_state,        \* what the caller's dict object holds after that call
    date_outcome,     \* what the Date Resolver answered in the last engine call
    returned_state,   \* state dict returned by the last engine call
    next_step,        \* step name returned by the last engine call
    saves,            \* number of update_conversation_state calls made by the last engine call
    date_input,       \* DateParser: arguments, configuration and what the outside world answers
    date_pc,          \* DateParser.parse_with_fallback: position in the call
    result,           \* DateParser.parse_with_fallback: the local result
    gpt_result,       \* DateParser.parse_with_fallback: the oracle's result
    date_returned,    \* DateParser.parse_with_fallback: the value returned
    date_calls,       \* DateParser: the resolvers invoked so far in this call, in order
    _openai_client,   \* DateParser._openai_client: None, a client, or False (unavailable)
    constructions,    \* how many times OpenAI(api_key=...) was constructed for this parser
    calls_made,       \* parse_with_fallback calls made on this parser
    classifier_attrs, \* IntentClassifier: the attributes of the classifier object
    seen,             \* the classify calls a caller made on the classifier itself so far, with their results
    match_input,      \* FuzzyMatcher.find_matches: arguments, with the scores rapidfuzz gives
    match_pc,         \* FuzzyMatcher.find_matches: position in the call
    match_result,     \* FuzzyMatcher.find_matches: the MatchResult returned
    retry_input,      \* retry_on_db_error: the decorator's arguments
    retry_pc,         \* retry_on_db_error.wrapper: position in the call
    attempt,          \* wrapper: the loop variable
    delay,            \* wrapper: the delay before the next attempt, in milliseconds
    last_exception,   \* wrapper: the database error caught last
    attempts,         \* what each invocation of the wrapped function did, in order
    slept,            \* the delays time.sleep was called with, in order
    retry_outcome     \* what the wrapper call ended with: a return value or a raised exception

\* the conversation and the workflow engine
workflow_vars == <<current_intent, state_data, target_task_id, pc, call, message,
                   intent_result, current_state, arg_state, date_outcome, returned_state,
                   next_step, saves>>

\* a DateParser.parse_with_fallback call
date_vars == <<date_input, date_pc, result, gpt_result, date_returned, date_calls,
               _openai_client, constructions, calls_made>>

classifier_vars == <<classifier_attrs, seen>>

match_vars == <<match_input, match_pc, match_result>>

retry_vars == <<retry_input, retry_pc, attempt, delay, last_exception, attempts, slept,
                retry_outcome>>

vars == <<workflow_vars, date_vars, classifier_vars, match_vars, retry_vars>>

None == "None"

NoTok == ""

-----------------------------------------------------------------------------
(* Bounds of the model *)

\* longest message enumerated exhaustively over CoreVocab
MaxMsgLen == 3

\* words every message up to MaxMsgLen is built from
CoreVocab == {"delete", "update", "show", "complete", "cancel", "stop",
              "task", "tasks", "5", "urgent", "the", "milk"}

-----------------------------------------------------------------------------
(* Tokens *)

\* digit runs that int() converts
ShortNumbers == {"0", "3", "5", "7"}

\* a run of 4301 nines: more digits than int() converts (the interpreter's
\* limit for integer string conversion is 4300 digits)
LongNumber == "99999...9"

\* \d+
NumTokens == ShortNumbers \cup {LongNumber}

TokNum(t) == CASE t = "0" -> 0 [] t = "3" -> 3 [] t = "5" -> 5 [] t = "7" -> 7 [] OTHER -> 0

\* word tokens of one character (matter to the look-ahead of COMPLETE_PATTERNS[3])
SingleCharTokens == ShortNumbers \cup {"a", "i"}

Tok(m, i) == IF i \in 1..Len(m) THEN m[i] ELSE NoTok

HasTok(m, S) == \E i \in 1..Len(m) : m[i] \in S

\* str.lower(): the upper-case spellings the texts use
LowerTok(t) == IF t = "CANCEL" THEN "cancel" ELSE IF t = "Timeout" THEN "timeout" ELSE t

Lower(m) == [i \in 1..Len(m) |-> LowerTok(m[i])]

-----------------------------------------------------------------------------
(* IntentClassifier pattern tables, one predicate per regular expression.  *)
(* Each predicate says that the regex matches starting at token i.         *)

ADD_P1(m, i) ==
    /\ Tok(m, i) \in {"add", "create", "new", "make"}
    /\ LET j == IF Tok(m, i+1) = "a" /\ (Tok(m, i+2) = "task" \/ (Tok(m, i+2) = "urgent" /\ Tok(m, i+3) = "task"))
                THEN i + 2 ELSE i + 1
       IN  \/ Tok(m, j) = "task"
           \/ Tok(m, j) = "urgent" /\ Tok(m, j+1) = "task"

ADD_P2(m, i) ==
    /\ Tok(m, i) \in {"add", "create"}
    /\ \/ Tok(m, i+1) \in {"urgent", "important"} /\ Tok(m, i+2) = "task"
       \/ Tok(m, i+1) = "high" /\ Tok(m, i+2) = "priority" /\ Tok(m, i+3) = "task"

ADD_P3(m, i) ==
    /\ Tok(m, i) \in {"add", "create", "new"}
    /\ Tok(m, i+1) \in {"high", "medium", "low", "normal"}
    /\ \/ Tok(m, i+2) = "task"
       \/ Tok(m, i+2) = "priority" /\ Tok(m, i+3) = "task"

\* (add|create)\s+[\w\s]+task\b : at least one word between the verb and "task"
ADD_P4(m, i) ==
    /\ Tok(m, i) \in {"add", "create"}
    /\ \E j \in (i+2)..Len(m) : m[j] = "task"

ADD_P5(m, i) == Tok(m, i) \in {"want", "need", "have"} /\ Tok(m, i+1) = "to"

ADD_P6(m, i) == Tok(m, i) \in {"remind", "remember"} /\ Tok(m, i+1) = "me" /\ Tok(m, i+2) = "to"

DELETE_P1(m, i) ==
    /\ Tok(m, i) \in {"delete", "remove", "erase"}
    /\ \/ Tok(m, i+1) = "task" /\ Tok(m, i+2) \in NumTokens
       \/ Tok(m, i+1) = "the" /\ Tok(m, i+2) = "task" /\ Tok(m, i+3) \in NumTokens

DELETE_P2(m, i) ==
    /\ Tok(m, i) \in {"delete", "remove", "erase"}
    /\ \/ Tok(m, i+1) = "task"
       \/ Tok(m, i+1) = "the" /\ Tok(m, i+2) = "task"

DELETE_P3(m, i) == Tok(m, i) = "cancel" /\ Tok(m, i+1) = "task" /\ Tok(m, i+2) \in NumTokens

DELETE_P4(m, i) ==
    /\ Tok(m, i) \in {"delete", "remove"}
    /\ Tok(m, i+1) = "the" /\ Tok(m, i+2) # NoTok /\ Tok(m, i+3) = "task"

UPDATE_P1(m, i) ==
    /\ Tok(m, i) \in {"update", "change", "modify", "edit"}
    /\ \/ Tok(m, i+1) = "task"
       \/ Tok(m, i+1) = "the" /\ Tok(m, i+2) = "task"

UPDATE_P2(m, i) ==
    Tok(m, i) \in {"update", "change"} /\ Tok(m, i+1) = "task" /\ Tok(m, i+2) \in NumTokens

UPDATE_P3(m, i) ==
    /\ Tok(m, i) \in {"change", "update"}
    /\ Tok(m, i+1) = "the" /\ Tok(m, i+2) # NoTok /\ Tok(m, i+3) = "task"

UPDATE_P4(m, i) ==
    /\ Tok(m, i) \in {"make", "set"} /\ Tok(m, i+1) = "it"
    /\ LET j == IF Tok(m, i+2) = "to" THEN i + 3 ELSE i + 2
       IN  Tok(m, j) \in {"high", "medium", "low"} /\ Tok(m, j+1) = "priority"

\* (mark|set)\s+(task\s+)?(\d+)?\s*as\s+(complete|done|finished)
COMPLETE_P1(m, i) ==
    /\ Tok(m, i) \in {"mark", "set"}
    /\ LET j == IF Tok(m, i+1) = "task" THEN i + 2 ELSE i + 1
           k == IF Tok(m, j) \in NumTokens THEN j + 1 ELSE j
       IN  Tok(m, k) = "as" /\ Tok(m, k+1) \in {"complete", "done", "finished"}

COMPLETE_P2(m, i) ==
    Tok(m, i) \in {"complete", "finish"} /\ Tok(m, i+1) = "task" /\ Tok(m, i+2) \in NumTokens

COMPLETE_P3(m, i) ==
    Tok(m, i) = "done" /\ Tok(m, i+1) = "with" /\ Tok(m, i+2) = "task" /\ Tok(m, i+3) \in NumTokens

\* (i\s+)?(finished|completed|done)\s+\w+(?!\s+tasks): \w+ may backtrack to a
\* proper prefix of the next word, so the look-ahead only bites when that
\* word has a single character
COMPLETE_P4(m, i) ==
    /\ Tok(m, i) \in {"finished", "completed", "done"}
    /\ Tok(m, i+1) # NoTok
    /\ ~(Tok(m, i+1) \in SingleCharTokens /\ Tok(m, i+2) = "tasks")

COMPLETE_P5(m, i) ==
    /\ Tok(m, i) = "task" /\ Tok(m, i+1) \in NumTokens /\ Tok(m, i+2) = "is"
    /\ Tok(m, i+3) \in {"done", "complete", "finished"}

\* (show|list|display|view|get)\s+(my|all|the)?\s*(pending|completed|active)?\s*tasks?
LIST_P1(m, i) ==
    /\ Tok(m, i) \in {"show", "list", "display", "view", "get"}
    /\ LET j == IF Tok(m, i+1) \in {"my", "all", "the"} THEN i + 2 ELSE i + 1
           k == IF Tok(m, j) \in {"pending", "completed", "active"} THEN j + 1 ELSE j
       IN  Tok(m, k) \in {"task", "tasks"}

LIST_P2(m, i) ==
    /\ Tok(m, i) \in {"show", "list", "display"}
    /\ LET j == IF Tok(m, i+1) = "all" THEN i + 2 ELSE i + 1
       IN  Tok(m, j) = "my" /\ Tok(m, j+1) \in {"task", "tasks"}

LIST_P3(m, i) ==
    /\ Tok(m, i) = "what"
    /\ LET j == IF Tok(m, i+1) = "are" THEN i + 2 ELSE i + 1
       IN  Tok(m, j) = "my" /\ Tok(m, j+1) = "tasks"

LIST_P4(m, i) ==
    /\ Tok(m, i) \in {"show", "list", "view"}
    /\ Tok(m, i+1) \in {"pending", "completed", "all"} /\ Tok(m, i+2) = "tasks"

CANCEL_P1(m, i) ==
    \/ Tok(m, i) = "never" /\ Tok(m, i+1) = "mind"
    \/ Tok(m, i) = "nevermind"

\* (cancel|stop|abort)(?!\s+task\s+\d)
CANCEL_P2(m, i) ==
    /\ Tok(m, i) \in {"cancel", "stop", "abort"}
    /\ ~(Tok(m, i+1) = "task" /\ Tok(m, i+2) \in NumTokens)

CANCEL_P3(m, i) ==
    \/ Tok(m, i) = "forget" /\ Tok(m, i+1) = "it"
    \/ Tok(m, i) = "don't" /\ Tok(m, i+1) = "bother"

ADD_PATTERNS(m) ==
    \E i \in 1..Len(m) : ADD_P1(m, i) \/ ADD_P2(m, i) \/ ADD_P3(m, i) \/ ADD_P4(m, i) \/ ADD_P5(m, i) \/ ADD_P6(m, i)

DELETE_PATTERNS(m) ==
    \E i \in 1..Len(m) : DELETE_P1(m, i) \/ DELETE_P2(m, i) \/ DELETE_P3(m, i) \/ DELETE_P4(m, i)

UPDATE_PATTERNS(m) ==
    \E i \in 1..Len(m) : UPDATE_P1(m, i) \/ UPDATE_P2(m, i) \/ UPDATE_P3(m, i) \/ UPDATE_P4(m, i)

COMPLETE_PATTERNS(m) ==
    \E i \in 1..Len(m) : COMPLETE_P1(m, i) \/ COMPLETE_P2(m, i) \/ COMPLETE_P3(m, i) \/ COMPLETE_P4(m, i) \/ COMPLETE_P5(m, i)

LIST_PATTERNS(m) ==
    \E i \in 1..Len(m) : LIST_P1(m, i) \/ LIST_P2(m, i) \/ LIST_P3(m, i) \/ LIST_P4(m, i)

CANCEL_PATTERNS(m) ==
    \E i \in 1..Len(m) : CANCEL_P1(m, i) \/ CANCEL_P2(m, i) \/ CANCEL_P3(m, i)

-----------------------------------------------------------------------------
(* Dictionaries (Python dicts with string keys) *)

EmptyDict == [k \in {} |-> None]

Has(d, k) == k \in DOMAIN d

Put(d, k, v) == [x \in (DOMAIN d) \cup {k} |-> IF x = k THEN v ELSE d[x]]

Merge(d, e) == [x \in (DOMAIN d) \cup (DOMAIN e) |-> IF x \in DOMAIN e THEN e[x] ELSE d[x]]

\* position of the first token at which P matches, 0 when there is none
FirstPos(m, P(_, _)) ==
    IF \E i \in 1..Len(m) : P(m, i)
    THEN CHOOSE i \in 1..Len(m) : P(m, i) /\ \A j \in 1..(i-1) : ~P(m, j)
    ELSE 0

-----------------------------------------------------------------------------
(* IntentClassifier: entity extraction *)

Intents == {"ADD_TASK", "UPDATE_TASK", "DELETE_TASK", "COMPLETE_TASK", "LIST_TASKS",
            "CANCEL_OPERATION", "PROVIDE_INFORMATION", "UNKNOWN"}

IntentResult(i, c, e) == [intent_type |-> i, confidence |-> c, extracted_entities |-> e]

\* "no IntentResult" (Python None where an IntentResult is expected)
NoResult == IntentResult(None, 0, EmptyDict)

\* a ValueError that leaves classify, in place of an IntentResult
ValueError == IntentResult("ValueError", 0, EmptyDict)

_matches_any_command_pattern(m) ==
    \/ ADD_PATTERNS(m) \/ DELETE_PATTERNS(m) \/ UPDATE_PATTERNS(m)
    \/ COMPLETE_PATTERNS(m) \/ LIST_PATTERNS(m) \/ CANCEL_PATTERNS(m)

\* mutant: medium and normal are not recognised
_extract_priority_without_medium(m) ==
    IF HasTok(m, {"high", "urgent", "important"}) THEN "high"
    ELSE IF HasTok(m, {"low"}) THEN "low"
    ELSE None

_extract_priority(m) ==
    IF HasTok(m, {"high", "urgent", "important"}) THEN "high"
    ELSE IF HasTok(m, {"medium", "normal"}) THEN "medium"
    ELSE IF HasTok(m, {"low"}) THEN "low"
    ELSE None

WithPriority(e, m) ==
    IF _extract_priority(m) # None THEN Put(e, "priority", _extract_priority(m)) ELSE e

\* \btask\s+(\d+)\b
TaskIdAt(m, i) == Tok(m, i) = "task" /\ Tok(m, i+1) \in NumTokens

WithTaskId(e, m) ==
    IF FirstPos(m, TaskIdAt) # 0
    THEN Put(e, "task_id", TokNum(m[FirstPos(m, TaskIdAt) + 1]))
    ELSE e

\* int(task_id_match.group(1)) raises ValueError
IntRaises(m) == FirstPos(m, TaskIdAt) # 0 /\ m[FirstPos(m, TaskIdAt) + 1] = LongNumber

\* \b(verb)\s+the\s+(\w+)\s+task\b
DeleteNameAt(m, i) ==
    Tok(m, i) \in {"delete", "remove"} /\ Tok(m, i+1) = "the" /\ Tok(m, i+2) # NoTok /\ Tok(m, i+3) = "task"

UpdateNameAt(m, i) ==
    Tok(m, i) \in {"update", "change"} /\ Tok(m, i+1) = "the" /\ Tok(m, i+2) # NoTok /\ Tok(m, i+3) = "task"

_extract_delete_entities(m) ==
    LET e1 == WithTaskId(EmptyDict, m)
    IN  IF FirstPos(m, DeleteNameAt) # 0
        THEN Put(e1, "task_name", <<m[FirstPos(m, DeleteNameAt) + 2]>>)
        ELSE e1

_extract_update_entities(m) ==
    LET e1 == WithTaskId(EmptyDict, m)
        e2 == IF FirstPos(m, UpdateNameAt) # 0
              THEN Put(e1, "task_name", <<m[FirstPos(m, UpdateNameAt) + 2]>>)
              ELSE e1
    IN  WithPriority(e2, m)

\* \b(finished|completed|done)\s+(.+)$
FinishedAt(m, i) == Tok(m, i) \in {"finished", "completed", "done"} /\ i < Len(m)

_extract_complete_entities(m) ==
    LET e1   == WithTaskId(EmptyDict, m)
        p    == FirstPos(m, FinishedAt)
        rest == SubSeq(m, p + 1, Len(m))
        \* re.sub(r'\s+(task)?$', '', task_name)
        name == IF Len(rest) >= 2 /\ rest[Len(rest)] = "task"
                THEN SubSeq(rest, 1, Len(rest) - 1) ELSE rest
    IN  IF p # 0 THEN Put(e1, "task_name", name) ELSE e1

_extract_list_entities(m) ==
    IF HasTok(m, {"pending"}) THEN Put(EmptyDict, "status", "pending")
    ELSE IF HasTok(m, {"completed"}) THEN Put(EmptyDict, "status", "completed")
    ELSE IF HasTok(m, {"all"}) THEN Put(EmptyDict, "status", "all")
    ELSE EmptyDict

\* number of tokens the k-th re.sub of _extract_add_entities removes at
\* position i (0: no match there); every pattern ends in \s+, so a further
\* token has to follow the removed ones
SubLen(k, m, i) ==
    LET t(j) == LowerTok(Tok(m, j))
    IN  CASE k = 1 ->
               LET a == IF t(i+1) = "a" THEN 1 ELSE 0
               IN  IF t(i) \in {"add", "create", "new", "make"} /\ t(i+1+a) = "task" /\ i + 1 + a < Len(m)
                   THEN IF t(i+2+a) = "to" /\ i + 2 + a < Len(m) THEN 3 + a ELSE 2 + a
                   ELSE 0
          [] k = 2 -> IF t(i) \in {"want", "need", "have"} /\ t(i+1) = "to" /\ i + 1 < Len(m) THEN 2 ELSE 0
          [] k = 3 -> IF t(i) \in {"remind", "remember"} /\ t(i+1) = "me" /\ t(i+2) = "to" /\ i + 2 < Len(m)
                      THEN 3 ELSE 0
          [] OTHER -> IF t(i) \in {"urgent", "high", "medium", "low"} /\ i < Len(m)
                      THEN IF t(i+1) = "priority" THEN 2 ELSE 1
                      ELSE 0

RECURSIVE ReSub(_, _, _)
ReSub(k, m, i) ==
    IF i > Len(m) THEN <<>>
    ELSE IF SubLen(k, m, i) > 0 THEN ReSub(k, m, i + SubLen(k, m, i))
    ELSE <<m[i]>> \o ReSub(k, m, i + 1)

_extract_add_entities(original, m) ==
    LET title == ReSub(4, ReSub(3, ReSub(2, ReSub(1, original, 1), 1), 1), 1)
        e1    == WithPriority(EmptyDict, m)
    IN  IF title # <<>> THEN Put(e1, "title", title) ELSE e1

-----------------------------------------------------------------------------
(* IntentClassifier.classify *)

Phases == {"NEUTRAL", "ADDING_TASK", "UPDATING_TASK", "DELETING_TASK", "COMPLETING_TASK"}

YesWords == {"yes", "yeah", "yep", "yup", "sure", "ok", "okay", "confirm"}

NoWords == {"no", "nope", "nah", "don't"}

MakeItAt(m, i) == Tok(m, i) \in {"make", "set"} /\ Tok(m, i+1) = "it"

\* entities collected by the ADDING_TASK branch
AddingInfoEntities(m) ==
    LET e1 == WithPriority(EmptyDict, m)
    IN  IF Len(m) <= 5 /\ ~_matches_any_command_pattern(m) THEN Put(e1, "title", m) ELSE e1

_classify_as_information(m, phase) ==
    IF Len(m) = 1 /\ m[1] \in YesWords
        THEN IntentResult("PROVIDE_INFORMATION", 95, Put(EmptyDict, "confirmation", TRUE))
    ELSE IF Len(m) = 1 /\ m[1] \in NoWords
        THEN IntentResult("PROVIDE_INFORMATION", 95, Put(EmptyDict, "confirmation", FALSE))
    ELSE IF phase = "ADDING_TASK" /\ (\E i \in 1..Len(m) : MakeItAt(m, i))
        THEN IntentResult("PROVIDE_INFORMATION", 90, AddingInfoEntities(m))
    ELSE IF phase = "ADDING_TASK" /\ DOMAIN AddingInfoEntities(m) # {}
        THEN IntentResult("PROVIDE_INFORMATION", 85, AddingInfoEntities(m))
    ELSE IF phase \in {"UPDATING_TASK", "DELETING_TASK", "COMPLETING_TASK"} /\ _extract_priority(m) # None
        THEN IntentResult("PROVIDE_INFORMATION", 85, Put(EmptyDict, "priority", _extract_priority(m)))
    ELSE NoResult

\* the result r of a branch whose entity extraction converts the task number
OrRaise(m, r) == IF IntRaises(m) THEN ValueError ELSE r

\* mutant: the complete patterns are tried before the list and add patterns
classify_complete_first(msg, phase) ==
    LET m    == Lower(msg)
        info == IF phase # "NEUTRAL" THEN _classify_as_information(m, phase) ELSE NoResult
    IN  IF msg = <<>> THEN IntentResult("UNKNOWN", 0, EmptyDict)
        ELSE IF info # NoResult THEN info
        ELSE IF CANCEL_PATTERNS(m) THEN IntentResult("CANCEL_OPERATION", 95, EmptyDict)
        ELSE IF COMPLETE_PATTERNS(m)
            THEN OrRaise(m, IntentResult("COMPLETE_TASK", 90, _extract_complete_entities(m)))
        ELSE IF LIST_PATTERNS(m) THEN IntentResult("LIST_TASKS", 90, _extract_list_entities(m))
        ELSE IF ADD_PATTERNS(m) THEN IntentResult("ADD_TASK", 90, _extract_add_entities(msg, m))
        ELSE IF DELETE_PATTERNS(m)
            THEN OrRaise(m, IntentResult("DELETE_TASK", 90, _extract_delete_entities(m)))
        ELSE IF UPDATE_PATTERNS(m)
            THEN OrRaise(m, IntentResult("UPDATE_TASK", 90, _extract_update_entities(m)))
        ELSE IntentResult("UNKNOWN", 30, EmptyDict)

classify(msg, phase) ==
    LET m    == Lower(msg)
        info == IF phase # "NEUTRAL" THEN _classify_as_information(m, phase) ELSE NoResult
    IN  IF msg = <<>> THEN IntentResult("UNKNOWN", 0, EmptyDict)
        ELSE IF info # NoResult THEN info
        ELSE IF CANCEL_PATTERNS(m) THEN IntentResult("CANCEL_OPERATION", 95, EmptyDict)
        ELSE IF LIST_PATTERNS(m) THEN IntentResult("LIST_TASKS", 90, _extract_list_entities(m))
        ELSE IF ADD_PATTERNS(m) THEN IntentResult("ADD_TASK", 90, _extract_add_entities(msg, m))
        ELSE IF DELETE_PATTERNS(m)
            THEN OrRaise(m, IntentResult("DELETE_TASK", 90, _extract_delete_entities(m)))
        ELSE IF UPDATE_PATTERNS(m)
            THEN OrRaise(m, IntentResult("UPDATE_TASK", 90, _extract_update_entities(m)))
        ELSE IF COMPLETE_PATTERNS(m)
            THEN OrRaise(m, IntentResult("COMPLETE_TASK", 90, _extract_complete_entities(m)))
        ELSE IntentResult("UNKNOWN", 30, EmptyDict)

\* mutant: classify keeps its last result on the object
AttrsAfter_remembers_last(attrs) == Put(attrs, "last_intent", "set")

\* the classifier's attributes after a classify call: __init__ sets none and
\* no method assigns to self or to a pattern table
AttrsAfter(attrs) == attrs


-----------------------------------------------------------------------------
(* ContextManager: workflow tables and text helpers *)

ADD_TASK_STEPS == <<"confirm", "priority", "deadline", "description", "create">>

UPDATE_TASK_STEPS == <<"identify", "show_details", "collect_changes", "confirm", "execute">>

DELETE_TASK_STEPS == <<"identify", "show_details", "confirm", "execute">>

COMPLETE_TASK_STEPS == <<"identify", "confirm", "execute">>

\* Python None for a text value / for a task id
NoneText == <<"None">>

NoTaskId == -1

\* "keyword in text_lower" is a substring test: the words of the vocabulary
\* that contain a keyword without being that keyword
SubstringPairs == {<<"follow", "low">>, <<"highway", "high">>}

ContainsAny(m, K) ==
    \E i \in 1..Len(m) : LowerTok(m[i]) \in K \/ (\E k \in K : <<LowerTok(m[i]), k>> \in SubstringPairs)

extract_priority_from_text(text) ==
    IF ContainsAny(text, {"high", "urgent", "critical", "important", "asap"}) THEN "high"
    ELSE IF ContainsAny(text, {"low", "minor", "trivial", "someday", "later"}) THEN "low"
    ELSE IF ContainsAny(text, {"medium", "normal", "regular"}) THEN "medium"
    ELSE None

\* the Date Resolver was not called
NotCalled == "not_called"

\* outcomes of DateParser.parse on a non-empty text: the dateparser library
\* and the clock decide which one a text gets
DateOutcomes == {"ok", "past", "far_future", "unparsed"}

\* mutant: a date too far in the future is rejected without asking again
validate_and_parse_date_far_future_final(outcome) ==
    CASE outcome = "ok"         -> [parsed_date |-> "iso", error_message |-> None, needs_clarification |-> FALSE]
      [] outcome = "past"       -> [parsed_date |-> None, error_message |-> "past", needs_clarification |-> TRUE]
      [] outcome = "far_future" -> [parsed_date |-> None, error_message |-> "future", needs_clarification |-> FALSE]
      [] OTHER                  -> [parsed_date |-> None, error_message |-> "not understood", needs_clarification |-> TRUE]

\* (parsed_date, error_message, needs_clarification)
validate_and_parse_date(outcome) ==
    CASE outcome = "ok"         -> [parsed_date |-> "iso", error_message |-> None, needs_clarification |-> FALSE]
      [] outcome = "past"       -> [parsed_date |-> None, error_message |-> "past", needs_clarification |-> TRUE]
      [] outcome = "far_future" -> [parsed_date |-> None, error_message |-> "future", needs_clarification |-> TRUE]
      [] OTHER                  -> [parsed_date |-> None, error_message |-> "not understood", needs_clarification |-> TRUE]

\* a task reference: kind "id" (int), "name" (text) or "none"
TaskRef(k, i, n) == [kind |-> k, id |-> i, name |-> n]

TheNameAt(m, i) == Tok(m, i) = "the" /\ Tok(m, i+1) # NoTok /\ Tok(m, i+2) = "task"

WordTaskAt(m, i) == Tok(m, i) # NoTok /\ Tok(m, i+1) = "task"

extract_task_reference(message_) ==
    LET m == Lower(message_)
    IN  IF FirstPos(m, TaskIdAt) # 0 THEN TaskRef("id", TokNum(m[FirstPos(m, TaskIdAt) + 1]), <<>>)
        ELSE IF Len(m) = 1 /\ m[1] \in NumTokens THEN TaskRef("id", TokNum(m[1]), <<>>)
        ELSE IF FirstPos(m, TheNameAt) # 0 THEN TaskRef("name", NoTaskId, <<m[FirstPos(m, TheNameAt) + 1]>>)
        ELSE IF FirstPos(m, WordTaskAt) # 0 /\ m[FirstPos(m, WordTaskAt)] \notin {"my", "the", "a", "this", "that"}
             THEN TaskRef("name", NoTaskId, <<m[FirstPos(m, WordTaskAt)]>>)
        ELSE TaskRef("none", NoTaskId, <<>>)

\* "if task_ref:" -- the id 0 is falsy
Truthy(ref) == (ref.kind = "id" /\ ref.id # 0) \/ ref.kind = "name"

TitleToAt(m, i) == Tok(m, i) \in {"title", "name"} /\ Tok(m, i+1) \in {"to", "as", "="} /\ i + 1 < Len(m)

DescToAt(m, i) == Tok(m, i) = "description" /\ Tok(m, i+1) \in {"to", "as", "="} /\ i + 1 < Len(m)

DueAt(m, i) == Tok(m, i) \in {"due", "deadline", "by"} /\ i < Len(m)

extract_field_changes(message_, entities, dp) ==
    LET m  == Lower(message_)
        c1 == IF Has(entities, "priority") THEN Put(EmptyDict, "priority", entities.priority)
              ELSE IF extract_priority_from_text(message_) # None
                   THEN Put(EmptyDict, "priority", extract_priority_from_text(message_))
              ELSE EmptyDict
        c2 == IF FirstPos(m, TitleToAt) # 0
              THEN Put(c1, "title", SubSeq(m, FirstPos(m, TitleToAt) + 2, Len(m))) ELSE c1
        c3 == IF FirstPos(m, DescToAt) # 0
              THEN Put(c2, "description", SubSeq(m, FirstPos(m, DescToAt) + 2, Len(m))) ELSE c2
        raw == SubSeq(m, FirstPos(m, DueAt) + 1, Len(m))
        v  == validate_and_parse_date(dp)
        c4 == IF FirstPos(m, DueAt) = 0 THEN c3
              ELSE IF v.parsed_date # None
                   THEN Put(Put(c3, "due_date_raw", raw), "due_date_parsed", v.parsed_date)
              ELSE Put(Put(c3, "due_date_raw", raw), "due_date_error", v.error_message)
    IN  IF HasTok(m, {"complete", "done", "finished"}) THEN Put(c4, "completed", TRUE)
        ELSE IF HasTok(m, {"incomplete", "pending"}) THEN Put(c4, "completed", FALSE)
        ELSE c4

\* mutant: only the one-word phrases are recognised
NoDeadlineAt_one_word(m, i) ==
    Tok(m, i) \in {"none", "nope"}

NoDeadlineAt(m, i) ==
    \/ Tok(m, i) \in {"skip", "none", "nope"}
    \/ Tok(m, i) = "no" /\ Tok(m, i+1) \in {"deadline", "thanks"}
    \/ Tok(m, i) = "no" /\ Tok(m, i+1) = "due" /\ Tok(m, i+2) = "date"
    \/ Tok(m, i) = "don't" /\ Tok(m, i+1) = "need" /\ Tok(m, i+2) = "one"

-----------------------------------------------------------------------------
(* ContextManager: initialize_<operation>_state (the state_data they build) *)

\* truthiness of an optional argument: None and the empty value count as not given
Supplied(x) == x # None /\ x # ""

SuppliedText(x) == x # NoneText /\ x # <<>>

\* mutant: the branch for fully supplied information is missing
initialize_add_task_state_never_create(initial_title, initial_priority, initial_due_date, initial_description) ==
    LET step == IF Supplied(initial_priority) /\ Supplied(initial_due_date) THEN "description"
                ELSE IF Supplied(initial_priority) THEN "deadline"
                ELSE "confirm"
        s0 == [title |-> initial_title, step |-> step]
        s1 == IF Supplied(initial_priority) THEN Put(s0, "priority", initial_priority) ELSE s0
        s2 == IF Supplied(initial_due_date) THEN Put(s1, "due_date", initial_due_date) ELSE s1
    IN  IF SuppliedText(initial_description) THEN Put(s2, "description", initial_description) ELSE s2

initialize_add_task_state(initial_title, initial_priority, initial_due_date, initial_description) ==
    LET step == IF Supplied(initial_priority) /\ Supplied(initial_due_date) /\ SuppliedText(initial_description)
                    THEN "create"
                ELSE IF Supplied(initial_priority) /\ Supplied(initial_due_date) THEN "description"
                ELSE IF Supplied(initial_priority) THEN "deadline"
                ELSE "confirm"
        s0 == [title |-> initial_title, step |-> step]
        s1 == IF Supplied(initial_priority) THEN Put(s0, "priority", initial_priority) ELSE s0
        s2 == IF Supplied(initial_due_date) THEN Put(s1, "due_date", initial_due_date) ELSE s1
    IN  IF SuppliedText(initial_description) THEN Put(s2, "description", initial_description) ELSE s2

\* a target id or name is "given" when it is truthy
GivenId(t) == t # NoTaskId /\ t # 0

WithTaskRef(s, target, task_name) ==
    LET s1 == IF GivenId(target) THEN Put(s, "target_task_id", target) ELSE s
    IN  IF task_name # NoneText THEN Put(s1, "task_name", task_name) ELSE s1

initialize_update_task_state(target, task_name, initial_changes) ==
    WithTaskRef([step |-> IF GivenId(target) THEN "show_details" ELSE "identify",
                 changes |-> initial_changes],
                target, task_name)

\* mutant: a known task starts the workflow at a step of the update sequence
initialize_delete_task_state_at_update_step(target, task_name) ==
    WithTaskRef([step |-> IF GivenId(target) THEN "collect_changes" ELSE "identify"],
                target, task_name)

initialize_delete_task_state(target, task_name) ==
    WithTaskRef([step |-> IF GivenId(target) THEN "show_details" ELSE "identify"],
                target, task_name)

\* mutant: the state is seeded like the update workflow's
initialize_complete_task_state_with_changes(target, task_name, toggle_to) ==
    WithTaskRef([step |-> IF GivenId(target) THEN "confirm" ELSE "identify",
                 toggle_to |-> toggle_to, changes |-> EmptyDict],
                target, task_name)

initialize_complete_task_state(target, task_name, toggle_to) ==
    WithTaskRef([step |-> IF GivenId(target) THEN "confirm" ELSE "identify",
                 toggle_to |-> toggle_to],
                target, task_name)


-----------------------------------------------------------------------------
(* ContextManager: collect_<operation>_information                         *)
(* Each returns (updated_state, next_step); saved tells whether the call   *)
(* reached its update_conversation_state(state_data=updated_state).        *)

Ret(st, nxt, sv) == [state |-> st, next |-> nxt, saved |-> sv, dates |-> FALSE]

\* the same result of a path that called validate_and_parse_date
DateChecked(r) == [r EXCEPT !.dates = TRUE]

Advance(st, step) == Ret(Put(st, "step", step), step, TRUE)

\* mutant: anything but a no counts as a yes
Confirmed_unless_declined(entities) == ~(Has(entities, "confirmation") /\ ~entities.confirmation)

Confirmed(entities) == Has(entities, "confirmation") /\ entities.confirmation

\* mutant: a reply without a yes counts as a no
Declined_unless_confirmed(entities) == ~(Has(entities, "confirmation") /\ entities.confirmation)

Declined(entities) == Has(entities, "confirmation") /\ ~entities.confirmation

\* "confirm" step of the add workflow
add_confirm_step(st, entities) ==
    IF Confirmed(entities) \/ Has(entities, "priority")
    THEN IF Has(entities, "priority")
         THEN Advance(Put(st, "priority", entities.priority), "deadline")
         ELSE Advance(st, "priority")
    ELSE Ret(st, "confirm", TRUE)

\* mutant: a given priority moves on to "description", the deadline step's target
add_priority_step_skips_deadline(st, entities, user_message) ==
    IF Has(entities, "priority")
        THEN Advance(Put(st, "priority", entities.priority), "description")
    ELSE IF extract_priority_from_text(user_message) # None
        THEN Advance(Put(st, "priority", extract_priority_from_text(user_message)), "description")
    ELSE Ret(st, "priority", TRUE)

\* "priority" step of the add workflow
add_priority_step(st, entities, user_message) ==
    IF Has(entities, "priority")
        THEN Advance(Put(st, "priority", entities.priority), "deadline")
    ELSE IF extract_priority_from_text(user_message) # None
        THEN Advance(Put(st, "priority", extract_priority_from_text(user_message)), "deadline")
    ELSE Ret(st, "priority", TRUE)

\* mutant: leaving the deadline step clears the stored date error
add_deadline_step_clears_error(st, entities, user_message, dp) ==
    LET v     == validate_and_parse_date(dp)
        clean == [x \in (DOMAIN st) \ {"date_error"} |-> st[x]]
    IN  IF Declined(entities) \/ (\E i \in 1..Len(user_message) : NoDeadlineAt(Lower(user_message), i))
            THEN Advance(Put(clean, "due_date_raw", NoneText), "description")
        ELSE IF v.parsed_date # None
            THEN DateChecked(Advance(Put(Put(clean, "due_date_raw", user_message),
                                         "due_date_parsed", v.parsed_date), "description"))
        ELSE IF v.needs_clarification
            THEN DateChecked(Ret(Put(st, "date_error", v.error_message), "deadline", TRUE))
        ELSE DateChecked(Advance(Put(st, "due_date_raw", user_message), "description"))

\* "deadline" step of the add workflow
add_deadline_step(st, entities, user_message, dp) ==
    LET v == validate_and_parse_date(dp)
    IN  IF Declined(entities) \/ (\E i \in 1..Len(user_message) : NoDeadlineAt(Lower(user_message), i))
            THEN Advance(Put(st, "due_date_raw", NoneText), "description")
        ELSE IF v.parsed_date # None
            THEN DateChecked(Advance(Put(Put(st, "due_date_raw", user_message),
                                         "due_date_parsed", v.parsed_date), "description"))
        ELSE IF v.needs_clarification
            THEN DateChecked(Ret(Put(st, "date_error", v.error_message), "deadline", TRUE))
        ELSE DateChecked(Advance(Put(st, "due_date_raw", user_message), "description"))

\* "description" step of the add workflow
add_description_step(st, entities, user_message) ==
    IF Declined(entities) THEN Advance(st, "create")
    ELSE Advance(Put(st, "description", user_message), "create")

\* mutant: a list request is taken as a reply to the add workflow
collect_add_task_information_list_in_phase(user_message, cur, dp) ==
    LET current_step == IF Has(cur, "step") THEN cur.step ELSE "confirm"
        r            == classify(user_message, "ADDING_TASK")
        entities     == r.extracted_entities
    IN  IF r.intent_type = "CANCEL_OPERATION" THEN Ret(cur, "cancel", FALSE)
        ELSE IF r.intent_type \notin {"PROVIDE_INFORMATION", "ADD_TASK", "LIST_TASKS"}
            THEN Ret(cur, "switch_intent", FALSE)
        ELSE CASE current_step = "confirm"     -> add_confirm_step(cur, entities)
               [] current_step = "priority"    -> add_priority_step(cur, entities, user_message)
               [] current_step = "deadline"    -> add_deadline_step(cur, entities, user_message, dp)
               [] current_step = "description" -> add_description_step(cur, entities, user_message)
               [] OTHER                        -> Ret(cur, current_step, TRUE)

collect_add_task_information(user_message, cur, dp) ==
    LET current_step == IF Has(cur, "step") THEN cur.step ELSE "confirm"
        r            == classify(user_message, "ADDING_TASK")
        entities     == r.extracted_entities
    IN  IF r.intent_type = "CANCEL_OPERATION" THEN Ret(cur, "cancel", FALSE)
        ELSE IF r.intent_type \notin {"PROVIDE_INFORMATION", "ADD_TASK"}
            THEN Ret(cur, "switch_intent", FALSE)
        ELSE CASE current_step = "confirm"     -> add_confirm_step(cur, entities)
               [] current_step = "priority"    -> add_priority_step(cur, entities, user_message)
               [] current_step = "deadline"    -> add_deadline_step(cur, entities, user_message, dp)
               [] current_step = "description" -> add_description_step(cur, entities, user_message)
               [] OTHER                        -> Ret(cur, current_step, TRUE)

\* mutant: the task id is stored but the workflow stays on "identify"
identify_step_stays(st, entities, user_message, following) ==
    LET ref == extract_task_reference(user_message)
    IN  IF Has(entities, "task_id")
            THEN Ret(Put(st, "target_task_id", entities.task_id), "identify", TRUE)
        ELSE IF Has(entities, "task_name")
            THEN Advance(Put(st, "task_name", entities.task_name), following)
        ELSE IF Truthy(ref)
            THEN IF ref.kind = "id"
                 THEN Ret(Put(st, "target_task_id", ref.id), "identify", TRUE)
                 ELSE Advance(Put(st, "task_name", ref.name), following)
        ELSE Ret(st, "identify", TRUE)

\* "identify" step shared by the update, delete and complete workflows
identify_step(st, entities, user_message, following) ==
    LET ref == extract_task_reference(user_message)
    IN  IF Has(entities, "task_id")
            THEN Advance(Put(st, "target_task_id", entities.task_id), following)
        ELSE IF Has(entities, "task_name")
            THEN Advance(Put(st, "task_name", entities.task_name), following)
        ELSE IF Truthy(ref)
            THEN IF ref.kind = "id"
                 THEN Advance(Put(st, "target_task_id", ref.id), following)
                 ELSE Advance(Put(st, "task_name", ref.name), following)
        ELSE Ret(st, "identify", TRUE)

\* mutant: the step is stored but the old step name is returned
confirm_step_stale_name(st, entities) ==
    IF Confirmed(entities) THEN Ret(Put(st, "step", "execute"), "confirm", TRUE)
    ELSE IF Declined(entities) THEN Ret(st, "cancel", TRUE)
    ELSE Ret(st, "confirm", TRUE)

\* a step that waits for yes / no
confirm_step(st, entities) ==
    IF Confirmed(entities) THEN Advance(st, "execute")
    ELSE IF Declined(entities) THEN Ret(st, "cancel", TRUE)
    ELSE Ret(st, "confirm", TRUE)

\* "show_details" and "collect_changes" steps of the update workflow
update_changes_step(st, entities, user_message, dp, otherwise) ==
    LET changes == extract_field_changes(user_message, entities, dp)
        old     == IF Has(st, "changes") THEN st.changes ELSE EmptyDict
        r       == IF DOMAIN changes # {}
                   THEN Advance(Put(st, "changes", Merge(old, changes)), "confirm")
                   ELSE otherwise
    IN  IF FirstPos(Lower(user_message), DueAt) # 0 THEN DateChecked(r) ELSE r

collect_update_task_information(user_message, cur, dp) ==
    LET current_step == IF Has(cur, "step") THEN cur.step ELSE "identify"
        r            == classify(user_message, "UPDATING_TASK")
        entities     == r.extracted_entities
    IN  IF r.intent_type = "CANCEL_OPERATION" THEN Ret(cur, "cancel", FALSE)
        ELSE IF r.intent_type \notin {"PROVIDE_INFORMATION", "UPDATE_TASK"}
            THEN Ret(cur, "switch_intent", FALSE)
        ELSE CASE current_step = "identify" ->
                    identify_step(cur, entities, user_message, "show_details")
               [] current_step = "show_details" ->
                    update_changes_step(cur, entities, user_message, dp,
                                        Advance(cur, "collect_changes"))
               [] current_step = "collect_changes" ->
                    update_changes_step(cur, entities, user_message, dp,
                                        Ret(cur, "collect_changes", TRUE))
               [] current_step = "confirm" -> confirm_step(cur, entities)
               [] OTHER -> Ret(cur, current_step, TRUE)

\* mutant: a "no" returns before the state is stored
delete_show_details_step_no_returns_early(st, entities) ==
    IF Confirmed(entities) THEN Advance(st, "execute")
    ELSE IF Declined(entities) THEN Ret(st, "cancel", FALSE)
    ELSE Advance(st, "confirm")

\* "show_details" step of the delete workflow
delete_show_details_step(st, entities) ==
    IF Confirmed(entities) THEN Advance(st, "execute")
    ELSE IF Declined(entities) THEN Ret(st, "cancel", TRUE)
    ELSE Advance(st, "confirm")

\* mutant: the intent-switch test comes before the cancellation test
collect_delete_task_information_switch_first(user_message, cur) ==
    LET current_step == IF Has(cur, "step") THEN cur.step ELSE "identify"
        r            == classify(user_message, "DELETING_TASK")
        entities     == r.extracted_entities
    IN  IF r.intent_type \notin {"PROVIDE_INFORMATION", "DELETE_TASK"}
            THEN Ret(cur, "switch_intent", FALSE)
        ELSE IF r.intent_type = "CANCEL_OPERATION" THEN Ret(cur, "cancel", FALSE)
        ELSE CASE current_step = "identify" ->
                    identify_step(cur, entities, user_message, "show_details")
               [] current_step = "show_details" -> delete_show_details_step(cur, entities)
               [] current_step = "confirm" -> confirm_step(cur, entities)
               [] OTHER -> Ret(cur, current_step, TRUE)

collect_delete_task_information(user_message, cur) ==
    LET current_step == IF Has(cur, "step") THEN cur.step ELSE "identify"
        r            == classify(user_message, "DELETING_TASK")
        entities     == r.extracted_entities
    IN  IF r.intent_type = "CANCEL_OPERATION" THEN Ret(cur, "cancel", FALSE)
        ELSE IF r.intent_type \notin {"PROVIDE_INFORMATION", "DELETE_TASK"}
            THEN Ret(cur, "switch_intent", FALSE)
        ELSE CASE current_step = "identify" ->
                    identify_step(cur, entities, user_message, "show_details")
               [] current_step = "show_details" -> delete_show_details_step(cur, entities)
               [] current_step = "confirm" -> confirm_step(cur, entities)
               [] OTHER -> Ret(cur, current_step, TRUE)

\* mutant: a "no" at the confirm step sends the workflow back to identify a task
collect_complete_task_information_no_reidentifies(user_message, cur) ==
    LET current_step == IF Has(cur, "step") THEN cur.step ELSE "identify"
        r            == classify(user_message, "COMPLETING_TASK")
        entities     == r.extracted_entities
    IN  IF r.intent_type = "CANCEL_OPERATION" THEN Ret(cur, "cancel", FALSE)
        ELSE IF r.intent_type \notin {"PROVIDE_INFORMATION", "COMPLETE_TASK"}
            THEN Ret(cur, "switch_intent", FALSE)
        ELSE CASE current_step = "identify" ->
                    identify_step(cur, entities, user_message, "confirm")
               [] current_step = "confirm" ->
                    IF Declined(entities) THEN Advance(cur, "identify")
                    ELSE confirm_step(cur, entities)
               [] OTHER -> Ret(cur, current_step, TRUE)

collect_complete_task_information(user_message, cur) ==
    LET current_step == IF Has(cur, "step") THEN cur.step ELSE "identify"
        r            == classify(user_message, "COMPLETING_TASK")
        entities     == r.extracted_entities
    IN  IF r.intent_type = "CANCEL_OPERATION" THEN Ret(cur, "cancel", FALSE)
        ELSE IF r.intent_type \notin {"PROVIDE_INFORMATION", "COMPLETE_TASK"}
            THEN Ret(cur, "switch_intent", FALSE)
        ELSE CASE current_step = "identify" ->
                    identify_step(cur, entities, user_message, "confirm")
               [] current_step = "confirm" -> confirm_step(cur, entities)
               [] OTHER -> Ret(cur, current_step, TRUE)


-----------------------------------------------------------------------------
(* Inputs *)

RECURSIVE SeqsUpTo(_, _)
SeqsUpTo(S, n) ==
    IF n = 0 THEN {<<>>}
    ELSE LET shorter == SeqsUpTo(S, n - 1)
         IN  shorter \cup {Append(q, t) : q \in {x \in shorter : Len(x) = n - 1}, t \in S}

\* longer or differently spelled phrases taken from the test suite
ExtraMessages ==
    { <<"CANCEL">>, <<"never", "mind">>, <<"forget", "it">>, <<"yes">>, <<"no">>,
      <<"delete", "the", "urgent", "task">>, <<"update", "task", "5", "to", "high", "priority">>,
      <<"make", "it", "high", "priority">>, <<"make", "it", "stop">>, <<"show", "my", "tasks">>,
      <<"show", "completed", "tasks">>, <<"mark", "task", "5", "as", "complete">>,
      <<"need", "to", "delete", "task", "5">>, <<"add", "task", "to", "buy", "milk">>,
      <<"please", "cancel", "this">>, <<"high", "priority">>, <<"critical">>,
      <<"delete", "task", LongNumber>>, <<"update", "task", LongNumber>>,
      <<"complete", "task", LongNumber>>, <<"task", LongNumber>>,
      <<"show", "task", LongNumber>>, <<"urgent", "task", LongNumber>>,
      \* phrases that match the patterns of two commands
      <<"i", "have", "to", "finished", "homework">>,
      <<"need", "to", "show", "tasks">>,
      <<"show", "tasks", "delete", "task", "5">>,
      <<"delete", "task", "5", "update", "task", "7">>,
      <<"update", "task", "5", "complete", "task", "7">>,
      <<"delete", "task", "mark", "as", "done">>,
      <<"stop", "show", "tasks", "delete", "task", "5">>,
      <<"urgent", "delete", "task", "5", "update", "task", "7">>,
      <<"need", "to", "update", "urgent", "task">>,
      \* priority words of the classifier and of extract_priority_from_text
      <<"low">>, <<"medium", "priority">>, <<"normal">>, <<"important", "milk">>,
      <<"cancel", "low">>, <<"asap">>, <<"minor">>, <<"trivial">>, <<"someday">>,
      <<"later">>, <<"regular">>, <<"delete", "task", "5", "asap">>, <<"highway">> }

\* messages the classifier is applied to
Messages == SeqsUpTo(CoreVocab, MaxMsgLen) \cup ExtraMessages

\* replies a user gives inside a workflow
WorkflowMessages ==
    { <<"yes">>, <<"no">>, <<"cancel">>, <<"milk">>, <<"urgent">>, <<"skip">>,
      <<"show", "tasks">>, <<"task", "5">>, <<"due", "tomorrow">>,
      <<"delete", "task", "5">>, <<"update", "task", "5">>, <<"update", "task", "7">>,
      <<"complete", "task", "5">>, <<"urgent", "task", "5">>, <<"urgent", "task", "7">>,
      <<"title", "to", "milk">>, <<"add", "task">>, <<"no", "deadline">>,
      <<"update", "task", "title", "to", "milk">> }

Titles == {<<"buy", "milk">>}

TaskIds == {NoTaskId, 5}

TaskNames == {NoneText, <<"milk">>}

-----------------------------------------------------------------------------
(* DateParser: parse, _parse_with_gpt and what they are given.  Time is    *)
(* counted in days; confidences are in hundredths.                          *)

MAX_FUTURE_YEARS == 10

GPT_FALLBACK_THRESHOLD == 60

\* timedelta(days=365 * self.MAX_FUTURE_YEARS)
Horizon == 365 * MAX_FUTURE_YEARS

\* the day the call is made on
Today == 100

\* most days that pass between two readings of datetime.now() in one call
MaxTick == 1

\* Python None where a datetime is expected
NoDate == -1

DateParseResult(success, parsed_date, confidence, error_message) ==
    [success |-> success, parsed_date |-> parsed_date, confidence |-> confidence,
     error_message |-> error_message]

Failure(error_message) == DateParseResult(FALSE, NoDate, 0, error_message)

\* no DateParseResult yet
NoDateResult == Failure(None)

\* dates around the two limits
Dates == {Today + k : k \in -1..1} \cup {Today + Horizon + k : k \in -1..(MaxTick + 1)}

\* what the text looks like to _calculate_confidence ("empty": None or blank)
TextKinds == {"empty", "dated_with_year", "timed", "relative", "month_name", "vague", "other"}

\* what dateparser.parse and _parse_day_with_time make of the text
LibOutcomes ==
    {[kind |-> k, date |-> NoDate] : k \in {"none", "raises"}}
        \cup {[kind |-> "date", date |-> d] : d \in Dates}

\* what the oracle answers when it is asked
OracleOutcomes ==
    {[kind |-> k, date |-> NoDate, confidence |-> 0] :
        k \in {"error", "bad_json", "declined", "no_success", "bad_fields"}}
        \cup {[kind |-> "date", date |-> d, confidence |-> c] : d \in Dates, c \in {30, 85}}

DateInputs ==
    [text : TextKinds, lib : LibOutcomes, oracle : OracleOutcomes,
     force_gpt : BOOLEAN, use_gpt_fallback : BOOLEAN, client_available : BOOLEAN,
     tick : 0..MaxTick]

NoDateInput ==
    [text |-> "empty", lib |-> [kind |-> "none", date |-> NoDate],
     oracle |-> [kind |-> "error", date |-> NoDate, confidence |-> 0],
     force_gpt |-> FALSE, use_gpt_fallback |-> FALSE, client_available |-> FALSE, tick |-> 0]

_calculate_confidence(text) ==
    CASE text = "dated_with_year" -> 95
      [] text = "timed"           -> 90
      [] text = "relative"        -> 80
      [] text = "month_name"      -> 85
      [] text = "vague"           -> 50
      [] OTHER                    -> 70

\* mutant: only the past is checked
Validated_past_only(d, tick, confidence) ==
    IF d < Today THEN Failure("past")
    ELSE DateParseResult(TRUE, d, confidence, None)

\* the two validations; the second reads the clock again
Validated(d, tick, confidence) ==
    IF d < Today THEN Failure("past")
    ELSE IF d > Today + tick + Horizon THEN Failure("far_future")
    ELSE DateParseResult(TRUE, d, confidence, None)

parse(in) ==
    IF in.text = "empty" THEN Failure("empty")
    ELSE IF in.lib.kind = "raises" THEN Failure("exception")
    ELSE IF in.lib.kind = "none" THEN Failure("unparsed")
    ELSE Validated(in.lib.date, in.tick, _calculate_confidence(in.text))

\* self._openai_client = None: no attempt made yet
NoClient == "None"

\* self._openai_client = False: "Mark as unavailable"
Unavailable == "False"

\* self._openai_client = OpenAI(api_key=api_key)
TheClient == "OpenAI"

\* mutant: an unavailable client is looked for again on every access
openai_client_retried(cache, in) ==
    IF cache # TheClient
    THEN IF in.client_available
         THEN [client |-> TRUE, cache |-> TheClient, built |-> 1]
         ELSE [client |-> FALSE, cache |-> Unavailable, built |-> 0]
    ELSE [client |-> cache = TheClient, cache |-> cache, built |-> 0]

\* the openai_client property, read when self._openai_client is cache:
\* client: whether it returns a client (None otherwise); cache: what it leaves
\* in self._openai_client; built: how many clients it constructed.
\* in.client_available: OPENAI_API_KEY is set and the openai package imports.
openai_client(cache, in) ==
    IF cache = NoClient
    THEN IF in.client_available
         THEN [client |-> TRUE, cache |-> TheClient, built |-> 1]
         ELSE [client |-> FALSE, cache |-> Unavailable, built |-> 0]
    ELSE [client |-> cache = TheClient, cache |-> cache, built |-> 0]

\* oracle answers that raise inside the try block: the request fails or times
\* out ("error"), json.loads fails ("bad_json"), "year"/"month"/"day" is
\* missing or no valid date ("bad_fields")
Malfunctions == {"error", "bad_json", "bad_fields"}

\* an exception that leaves _parse_with_gpt, in place of a DateParseResult
Propagated == DateParseResult(FALSE, NoDate, 0, "uncaught")

\* mutant: only json.JSONDecodeError is handled
Caught_json_only(kind) ==
    CASE kind = "bad_json" -> Failure("gpt_bad_json")
      [] OTHER             -> Propagated

\* except json.JSONDecodeError, then except Exception
Caught(kind) ==
    CASE kind = "bad_json" -> Failure("gpt_bad_json")
      [] OTHER             -> Failure("gpt_failed")

\* where a call ends that got r from _parse_with_gpt
EndOfCall(r) == IF r = Propagated THEN "raised" ELSE "done"

\* asked: whether the request went out to the oracle
\* mutant: the oracle's date is trusted without the past and far-future checks
_parse_with_gpt_unvalidated(in, cache) ==
    IF ~in.use_gpt_fallback
    THEN [res |-> Failure("gpt_disabled"), asked |-> FALSE, cache |-> cache, built |-> 0]
    ELSE LET client == openai_client(cache, in) IN
    IF ~client.client
    THEN [res |-> Failure("gpt_unavailable"), asked |-> FALSE,
          cache |-> client.cache, built |-> client.built]
    ELSE [asked |-> TRUE, cache |-> client.cache, built |-> client.built,
          res |-> CASE in.oracle.kind \in Malfunctions -> Caught(in.oracle.kind)
                    [] in.oracle.kind \in {"declined", "no_success"} -> Failure("gpt_declined")
                    [] OTHER -> DateParseResult(TRUE, in.oracle.date, in.oracle.confidence, None)]

_parse_with_gpt(in, cache) ==
    IF ~in.use_gpt_fallback
    THEN [res |-> Failure("gpt_disabled"), asked |-> FALSE, cache |-> cache, built |-> 0]
    ELSE LET client == openai_client(cache, in) IN
    IF ~client.client
    THEN [res |-> Failure("gpt_unavailable"), asked |-> FALSE,
          cache |-> client.cache, built |-> client.built]
    ELSE [asked |-> TRUE, cache |-> client.cache, built |-> client.built,
          res |-> CASE in.oracle.kind \in Malfunctions -> Caught(in.oracle.kind)
                    [] in.oracle.kind \in {"declined", "no_success"} -> Failure("gpt_declined")
                    [] OTHER -> Validated(in.oracle.date, in.tick, in.oracle.confidence)]

\* a workflow turn makes no parse_with_fallback call
DateIdle ==
    /\ date_input = NoDateInput
    /\ date_pc = "off"
    /\ result = NoDateResult
    /\ gpt_result = NoDateResult
    /\ date_returned = NoDateResult
    /\ date_calls = <<>>
    /\ _openai_client = NoClient
    /\ constructions = 0
    /\ calls_made = 0

-----------------------------------------------------------------------------
(* FuzzyMatcher: find_matches and what it is given.  A task is what the     *)
(* matcher reads of it: the length of its title and the scores              *)
(* fuzz.partial_ratio gives the query against its title and description.   *)

DEFAULT_SINGLE_MATCH_THRESHOLD == 70

DEFAULT_MULTIPLE_MATCH_THRESHOLD == 60

DEFAULT_MAX_RESULTS == 5

\* longest task list
MaxTasks == 3

\* scores on both sides of the two default thresholds
TitleScores == {DEFAULT_MULTIPLE_MATCH_THRESHOLD - 1, DEFAULT_MULTIPLE_MATCH_THRESHOLD,
                DEFAULT_SINGLE_MATCH_THRESHOLD - 1, DEFAULT_SINGLE_MATCH_THRESHOLD}

\* 0: no description, or one that has nothing of the query
DescriptionScores == {0, DEFAULT_MULTIPLE_MATCH_THRESHOLD + 5}

TitleLengths == {3, 8}

Tasks == [title_len : TitleLengths, title_score : TitleScores,
          description_score : DescriptionScores]

TaskLists == UNION {[1..n -> Tasks] : n \in 0..MaxTasks}

\* None, empty, blank, and a query with text
Queries == {None, "", " ", "milk"}

MatchInputs ==
    [query : Queries, tasks_given : BOOLEAN, tasks : TaskLists,
     single_match_threshold : {DEFAULT_SINGLE_MATCH_THRESHOLD},
     multiple_match_threshold : {DEFAULT_MULTIPLE_MATCH_THRESHOLD, DEFAULT_SINGLE_MATCH_THRESHOLD},
     max_results : {1, 2, DEFAULT_MAX_RESULTS}]

NoMatchInput ==
    [query |-> None, tasks_given |-> FALSE, tasks |-> <<>>,
     single_match_threshold |-> DEFAULT_SINGLE_MATCH_THRESHOLD,
     multiple_match_threshold |-> DEFAULT_MULTIPLE_MATCH_THRESHOLD,
     max_results |-> DEFAULT_MAX_RESULTS]

MatchResult(success, matches, error_message) ==
    [success |-> success, matches |-> matches, error_message |-> error_message]

MatchFailure(error_message) == MatchResult(FALSE, <<>>, error_message)

\* no MatchResult yet
NoMatchResult == MatchFailure(None)

Max(a, b) == IF a >= b THEN a ELSE b

\* the entry find_matches keeps of the task at position i of the list
Match(tasks, i) ==
    [task_id |-> i,
     title_len |-> tasks[i].title_len,
     score |-> Max(tasks[i].title_score, tasks[i].description_score),
     matched_field |-> IF tasks[i].title_score >= tasks[i].description_score
                       THEN "title" ELSE "description"]

\* mutant: the default threshold is applied, whatever threshold was passed
RECURSIVE Candidates_default_threshold(_, _, _)
Candidates_default_threshold(tasks, n, threshold) ==
    IF n = 0 THEN <<>>
    ELSE LET before == Candidates_default_threshold(tasks, n - 1, threshold)
         IN  IF Match(tasks, n).score >= DEFAULT_MULTIPLE_MATCH_THRESHOLD
             THEN Append(before, Match(tasks, n)) ELSE before

\* the loop over the tasks: those whose best score reaches the threshold, in list order
RECURSIVE Candidates(_, _, _)
Candidates(tasks, n, threshold) ==
    IF n = 0 THEN <<>>
    ELSE LET before == Candidates(tasks, n - 1, threshold)
         IN  IF Match(tasks, n).score >= threshold
             THEN Append(before, Match(tasks, n)) ELSE before

\* mutant: the sort key is the score alone
SortsBefore_score_only(a, b) ==
    a.score > b.score

\* the sort key (-score, len(title)) puts a strictly before b
SortsBefore(a, b) ==
    a.score > b.score \/ (a.score = b.score /\ a.title_len < b.title_len)

\* x put into a sorted list behind everything it does not sort strictly before
Inserted(sorted, x) ==
    LET k == Cardinality({i \in 1..Len(sorted) : ~SortsBefore(x, sorted[i])})
    IN  SubSeq(sorted, 1, k) \o <<x>> \o SubSeq(sorted, k + 1, Len(sorted))

\* matches.sort(key=...): a stable sort
RECURSIVE Sorted(_, _)
Sorted(matches, n) ==
    IF n = 0 THEN <<>> ELSE Inserted(Sorted(matches, n - 1), matches[n])

\* matches[:max_results]
Limited(matches, max_results) ==
    IF max_results >= 0
    THEN SubSeq(matches, 1, IF max_results < Len(matches) THEN max_results ELSE Len(matches))
    ELSE SubSeq(matches, 1, Max(Len(matches) + max_results, 0))

\* mutant: only an absent query counts as empty
Blank_absent_only(query) == query = None

\* not query or not str(query).strip()
Blank(query) == query \in {None, "", " "}

\* mutant: a single candidate is returned however weak it is
find_matches_keeps_weak_single(in) ==
    IF Blank(in.query) THEN MatchFailure("empty_query")
    ELSE IF ~in.tasks_given THEN MatchFailure("tasks_none")
    ELSE IF in.tasks = <<>> THEN MatchFailure("no_tasks")
    ELSE LET matches == Candidates(in.tasks, Len(in.tasks), in.multiple_match_threshold)
             ranked  == Sorted(matches, Len(matches))
         IN  IF matches = <<>> THEN MatchFailure("no_match")
             ELSE MatchResult(TRUE, Limited(ranked, in.max_results), None)

find_matches(in) ==
    IF Blank(in.query) THEN MatchFailure("empty_query")
    ELSE IF ~in.tasks_given THEN MatchFailure("tasks_none")
    ELSE IF in.tasks = <<>> THEN MatchFailure("no_tasks")
    ELSE LET matches == Candidates(in.tasks, Len(in.tasks), in.multiple_match_threshold)
             ranked  == Sorted(matches, Len(matches))
         IN  IF matches = <<>> THEN MatchFailure("no_match")
             ELSE IF Len(ranked) = 1 /\ ranked[1].score < in.single_match_threshold
                 THEN MatchFailure("no_confident_match")
             ELSE MatchResult(TRUE, Limited(ranked, in.max_results), None)

\* no find_matches call is made
MatchIdle ==
    /\ match_input = NoMatchInput
    /\ match_pc = "off"
    /\ match_result = NoMatchResult

-----------------------------------------------------------------------------
(* retry_on_db_error: the wrapper it puts around a database operation.  An  *)
(* exception is its class and the words of str(e); delays are in            *)
(* milliseconds.                                                            *)

\* most attempts a decorator is given
MaxAttempts == 3

\* except (OperationalError, DBAPIError)
DatabaseErrors == {"OperationalError", "DBAPIError"}

\* ValueError stands for the exceptions that are no database errors
ExceptionClasses == DatabaseErrors \cup {"ValueError"}

\* what str(e) says
ErrorMessages ==
    { <<"connection", "refused">>, <<"Timeout", "expired">>, <<"server", "closed", "unexpectedly">>,
      <<"too", "many", "connections">>, <<"unique", "constraint", "failed">>,
      <<"timed", "out">>, <<"server", "was", "closed">> }

Exceptions == [class : ExceptionClasses, message : ErrorMessages]

\* the wrapped function returned its result
Returned_ok == [class |-> "returned", message |-> <<>>]

\* what one invocation of the wrapped function does
FuncOutcomes == {Returned_ok} \cup Exceptions

\* last_exception = None; also: the call has not ended
NoException == [class |-> None, message |-> <<>>]

\* what "raise None" raises
TypeError == [class |-> "TypeError", message |-> <<"exceptions", "must", "derive", "from", "BaseException">>]

RetryInputs == [max_attempts : 0..MaxAttempts, initial_delay : {0, 100}, backoff_factor : {1, 2}]

NoRetryInput == [max_attempts |-> 0, initial_delay |-> 0, backoff_factor |-> 1]

\* the words of the error messages that contain a keyword without being it
KeywordInWord == {<<"connections", "connection">>}

\* keyword in error_msg.lower(), for a keyword of one or two words
KeywordIn(keyword, error_msg) ==
    LET m == Lower(error_msg)
        last == Len(keyword)
    IN  \E i \in 1..(Len(m) - last + 1) :
            /\ \A j \in 1..(last - 1) : m[i + j - 1] = keyword[j]
            /\ \/ m[i + last - 1] = keyword[last]
               \/ <<m[i + last - 1], keyword[last]>> \in KeywordInWord

\* mutant: every database error is worth retrying
is_transient_always(error_msg) == TRUE

is_transient(error_msg) ==
    \E keyword \in {<<"connection">>, <<"timeout">>, <<"server", "closed">>, <<"lost", "connection">>} :
        KeywordIn(keyword, error_msg)

\* mutant: when the attempts are used up the error is logged and the wrapper returns
AfterDatabaseError_swallowed(attempt_no, max_attempts, e) ==
    IF attempt_no < max_attempts /\ is_transient(e.message) THEN "sleep"
    ELSE IF is_transient(e.message) THEN "returned"
    ELSE "raised"

\* the except clause: sleep and go round again, or re-raise
AfterDatabaseError(attempt_no, max_attempts, e) ==
    IF attempt_no < max_attempts /\ is_transient(e.message) THEN "sleep" ELSE "raised"

\* no wrapper call is made
RetryIdle ==
    /\ retry_input = NoRetryInput
    /\ retry_pc = "off"
    /\ attempt = 0
    /\ delay = 0
    /\ last_exception = NoException
    /\ attempts = <<>>
    /\ slept = <<>>
    /\ retry_outcome = NoException

-----------------------------------------------------------------------------
(* ConversationService: the persisted conversation record *)

\* update_conversation_state(conversation_id, user_id, **args): sets the columns given
update_conversation_state(args) ==
    /\ current_intent' = IF Has(args, "current_intent") THEN args.current_intent ELSE current_intent
    /\ state_data' = IF Has(args, "state_data") THEN args.state_data ELSE state_data
    /\ target_task_id' = IF Has(args, "target_task_id") THEN args.target_task_id ELSE target_task_id

reset_conversation_state ==
    /\ current_intent' = "NEUTRAL"
    /\ state_data' = EmptyDict
    /\ target_task_id' = NoTaskId

\* mutant: the reset is not forwarded to the conversation service
reset_state_after_completion_forgotten == UNCHANGED <<current_intent, state_data, target_task_id>>

reset_state_after_completion == reset_conversation_state

-----------------------------------------------------------------------------
(* The state machine *)

Init ==
    /\ current_intent = "NEUTRAL"
    /\ state_data = EmptyDict
    /\ target_task_id = NoTaskId
    /\ pc = "idle"
    /\ call = "none"
    /\ message = <<>>
    /\ intent_result = NoResult
    /\ current_state = EmptyDict
    /\ arg_state = EmptyDict
    /\ date_outcome = NotCalled
    /\ returned_state = EmptyDict
    /\ next_step = None
    /\ saves = 0
    /\ classifier_attrs = EmptyDict
    /\ seen = {}
    /\ MatchIdle
    /\ RetryIdle
    /\ DateIdle

\* what an initialize_<operation>_state call leaves behind
Initialized(name, intent, st, target) ==
    /\ update_conversation_state(
           IF GivenId(target)
           THEN [current_intent |-> intent, state_data |-> st, target_task_id |-> target]
           ELSE [current_intent |-> intent, state_data |-> st])
    /\ pc' = "returned"
    /\ call' = name
    /\ current_state' = EmptyDict
    /\ arg_state' = EmptyDict
    /\ date_outcome' = NotCalled
    /\ returned_state' = st
    /\ next_step' = st.step
    /\ saves' = 1
    /\ UNCHANGED <<message, intent_result>>
    /\ UNCHANGED <<date_vars, classifier_vars, match_vars, retry_vars>>

InitializeAdd ==
    /\ pc = "idle" /\ current_intent = "NEUTRAL"
    /\ \E title \in Titles, priority \in {None, "high"},
          due_date \in {None, "2026-02-01"}, description \in {NoneText, <<>>, <<"from", "store">>} :
          Initialized("initialize_add", "ADDING_TASK",
                      initialize_add_task_state(title, priority, due_date, description), NoTaskId)

InitializeUpdate ==
    /\ pc = "idle" /\ current_intent = "NEUTRAL"
    /\ \E target \in TaskIds, task_name \in TaskNames, changes \in {EmptyDict, [priority |-> "high"]} :
          Initialized("initialize_update", "UPDATING_TASK",
                      initialize_update_task_state(target, task_name, changes), target)

InitializeDelete ==
    /\ pc = "idle" /\ current_intent = "NEUTRAL"
    /\ \E target \in TaskIds, task_name \in TaskNames :
          Initialized("initialize_delete", "DELETING_TASK",
                      initialize_delete_task_state(target, task_name), target)

InitializeComplete ==
    /\ pc = "idle" /\ current_intent = "NEUTRAL"
    /\ \E target \in TaskIds, task_name \in TaskNames, toggle_to \in BOOLEAN :
          Initialized("initialize_complete", "COMPLETING_TASK",
                      initialize_complete_task_state(target, task_name, toggle_to), target)

\* mutant: the step logic writes to the caller's dict (updated_state = current_state)
PassedObjectAfter_written_in_place(cur, r) == r.state

\* updated_state = current_state.copy(): the step logic writes to a new dict
\* object, so the dict object the caller passed holds after the call what it
\* held before
PassedObjectAfter(cur, r) == cur

\* what a collect_<operation>_information call leaves behind
Collected(name, phase, msg, r, dp) ==
    /\ IF r.saved
       THEN update_conversation_state([state_data |-> r.state])
       ELSE UNCHANGED <<current_intent, state_data, target_task_id>>
    /\ pc' = "returned"
    /\ call' = name
    /\ message' = msg
    /\ intent_result' = classify(msg, phase)
    /\ current_state' = state_data
    /\ arg_state' = PassedObjectAfter(state_data, r)
    /\ date_outcome' = (IF r.dates THEN dp ELSE NotCalled)
    /\ returned_state' = r.state
    /\ next_step' = r.next
    /\ saves' = IF r.saved THEN 1 ELSE 0
    /\ classifier_attrs' = AttrsAfter(classifier_attrs)
    /\ UNCHANGED <<date_vars, seen, match_vars, retry_vars>>

CollectAdd ==
    /\ pc = "idle" /\ current_intent = "ADDING_TASK"
    /\ \E msg \in WorkflowMessages, dp \in DateOutcomes :
          Collected("collect_add", "ADDING_TASK", msg,
                    collect_add_task_information(msg, state_data, dp), dp)

CollectUpdate ==
    /\ pc = "idle" /\ current_intent = "UPDATING_TASK"
    /\ \E msg \in WorkflowMessages, dp \in DateOutcomes :
          Collected("collect_update", "UPDATING_TASK", msg,
                    collect_update_task_information(msg, state_data, dp), dp)

CollectDelete ==
    /\ pc = "idle" /\ current_intent = "DELETING_TASK"
    /\ \E msg \in WorkflowMessages :
          Collected("collect_delete", "DELETING_TASK", msg,
                    collect_delete_task_information(msg, state_data), NotCalled)

CollectComplete ==
    /\ pc = "idle" /\ current_intent = "COMPLETING_TASK"
    /\ \E msg \in WorkflowMessages :
          Collected("collect_complete", "COMPLETING_TASK", msg,
                    collect_complete_task_information(msg, state_data), NotCalled)

\* step names that end an operation
EndingSteps == {"cancel", "switch_intent", "create", "execute"}

\* the caller of the engine: an ending step makes it reset the conversation
CallerDispatch ==
    /\ pc = "returned"
    /\ IF next_step \in EndingSteps
       THEN reset_state_after_completion
       ELSE UNCHANGED <<current_intent, state_data, target_task_id>>
    /\ pc' = "idle"
    /\ UNCHANGED <<call, message, intent_result, current_state, arg_state, date_outcome,
                   returned_state, next_step, saves>>
    /\ UNCHANGED <<date_vars, classifier_vars, match_vars, retry_vars>>

Next ==
    \/ InitializeAdd \/ InitializeUpdate \/ InitializeDelete \/ InitializeComplete
    \/ CollectAdd \/ CollectUpdate \/ CollectDelete \/ CollectComplete
    \/ CallerDispatch

Spec == Init /\ [][Next]_vars

(* The classifier on its own: every message against every phase *)

InitClassify ==
    /\ current_intent \in Phases
    /\ message \in Messages
    /\ state_data = EmptyDict
    /\ target_task_id = NoTaskId
    /\ pc = "idle"
    /\ call = "none"
    /\ intent_result = NoResult
    /\ current_state = EmptyDict
    /\ arg_state = EmptyDict
    /\ date_outcome = NotCalled
    /\ returned_state = EmptyDict
    /\ next_step = None
    /\ saves = 0
    /\ classifier_attrs = EmptyDict
    /\ seen = {}
    /\ MatchIdle
    /\ RetryIdle
    /\ DateIdle

ClassifyCall ==
    /\ pc = "idle"
    /\ intent_result' = classify(message, current_intent)
    /\ pc' = IF classify(message, current_intent) = ValueError THEN "raised" ELSE "returned"
    /\ call' = "classify"
    /\ classifier_attrs' = AttrsAfter(classifier_attrs)
    /\ seen' = seen \cup {[message |-> message, phase |-> current_intent,
                            result |-> classify(message, current_intent)]}
    /\ UNCHANGED <<current_intent, state_data, target_task_id, message, current_state,
                   arg_state, date_outcome, returned_state, next_step, saves>>
    /\ UNCHANGED <<date_vars, match_vars, retry_vars>>

NextClassify == ClassifyCall

SpecClassify == InitClassify /\ [][NextClassify]_vars

-----------------------------------------------------------------------------
(* One classifier object over several classify calls *)

\* a blank message, in-phase information, a command, a command that raises
ReMessages == {<<>>, <<"urgent">>, <<"show", "tasks">>, <<"delete", "task", "5">>,
               <<"delete", "task", LongNumber>>}

RePhases == {"NEUTRAL", "DELETING_TASK"}

InitReclassify ==
    /\ current_intent \in RePhases
    /\ message \in ReMessages
    /\ state_data = EmptyDict
    /\ target_task_id = NoTaskId
    /\ pc = "idle"
    /\ call = "none"
    /\ intent_result = NoResult
    /\ current_state = EmptyDict
    /\ arg_state = EmptyDict
    /\ date_outcome = NotCalled
    /\ returned_state = EmptyDict
    /\ next_step = None
    /\ saves = 0
    /\ classifier_attrs = EmptyDict
    /\ seen = {}
    /\ MatchIdle
    /\ RetryIdle
    /\ DateIdle

\* the caller has the result, or the exception, and comes with the next message
NextMessage ==
    /\ pc \in {"returned", "raised"} /\ call = "classify"
    /\ message' \in ReMessages
    /\ current_intent' \in RePhases
    /\ pc' = "idle"
    /\ UNCHANGED <<state_data, target_task_id, call, intent_result, current_state, arg_state,
                   date_outcome, returned_state, next_step, saves>>
    /\ UNCHANGED <<date_vars, classifier_vars, match_vars, retry_vars>>

NextReclassify == ClassifyCall \/ NextMessage

SpecReclassify == InitReclassify /\ [][NextReclassify]_vars

-----------------------------------------------------------------------------
(* DateParser.parse_with_fallback, for every text, library answer, oracle   *)
(* answer and configuration                                                  *)

InitDate ==
    /\ current_intent = "NEUTRAL"
    /\ state_data = EmptyDict
    /\ target_task_id = NoTaskId
    /\ pc = "idle"
    /\ call = "none"
    /\ message = <<>>
    /\ intent_result = NoResult
    /\ current_state = EmptyDict
    /\ arg_state = EmptyDict
    /\ date_outcome = NotCalled
    /\ returned_state = EmptyDict
    /\ next_step = None
    /\ saves = 0
    /\ classifier_attrs = EmptyDict
    /\ seen = {}
    /\ MatchIdle
    /\ RetryIdle
    /\ date_input \in DateInputs
    /\ date_pc = "start"
    /\ result = NoDateResult
    /\ gpt_result = NoDateResult
    /\ date_returned = NoDateResult
    /\ date_calls = <<>>
    /\ _openai_client = NoClient
    /\ constructions = 0
    /\ calls_made = 1

\* mutant: any local success is trusted, whatever its confidence
TrustedLocally_any_success(r) == r.success

\* "dateparser succeeded with good confidence"
TrustedLocally(r) == r.success /\ r.confidence >= GPT_FALLBACK_THRESHOLD

\* mutant: the oracle's answer is returned whether it succeeded or not
AfterEscalation_oracle_always(local, gpt) == gpt

\* the oracle's result if it succeeded, the local one otherwise
AfterEscalation(local, gpt) == IF gpt.success THEN gpt ELSE local

\* the resolvers a _parse_with_gpt call adds to those invoked
WithOracleCall(calls, g) == IF g.asked THEN Append(calls, "oracle") ELSE calls

\* force_gpt: straight to _parse_with_gpt
ForceGpt ==
    /\ date_pc = "start" /\ date_input.force_gpt
    /\ LET g == _parse_with_gpt(date_input, _openai_client)
       IN  /\ gpt_result' = g.res
           /\ date_returned' = g.res
           /\ date_calls' = WithOracleCall(date_calls, g)
           /\ date_pc' = EndOfCall(g.res)
           /\ _openai_client' = g.cache
           /\ constructions' = constructions + g.built
    /\ UNCHANGED <<date_input, result, calls_made>>
    /\ UNCHANGED <<workflow_vars, classifier_vars, match_vars, retry_vars>>

\* result = self.parse(date_string, prefer_day_first)
LocalParse ==
    /\ date_pc = "start" /\ ~date_input.force_gpt
    /\ result' = parse(date_input)
    /\ date_calls' = Append(date_calls, "parse")
    /\ date_pc' = "parsed"
    /\ UNCHANGED <<date_input, gpt_result, date_returned, _openai_client, constructions,
                   calls_made>>
    /\ UNCHANGED <<workflow_vars, classifier_vars, match_vars, retry_vars>>

ReturnLocal ==
    /\ date_pc = "parsed" /\ TrustedLocally(result)
    /\ date_returned' = result
    /\ date_pc' = "done"
    /\ UNCHANGED <<date_input, result, gpt_result, date_calls, _openai_client, constructions,
                   calls_made>>
    /\ UNCHANGED <<workflow_vars, classifier_vars, match_vars, retry_vars>>

Escalate ==
    /\ date_pc = "parsed" /\ ~TrustedLocally(result)
    /\ date_input.use_gpt_fallback
    /\ LET client == openai_client(_openai_client, date_input)
           g == _parse_with_gpt(date_input, client.cache)
       IN  /\ client.client
           /\ gpt_result' = g.res
           /\ date_returned' = AfterEscalation(result, g.res)
           /\ date_calls' = WithOracleCall(date_calls, g)
           /\ date_pc' = EndOfCall(g.res)
           /\ _openai_client' = g.cache
           /\ constructions' = constructions + client.built + g.built
    /\ UNCHANGED <<date_input, result, calls_made>>
    /\ UNCHANGED <<workflow_vars, classifier_vars, match_vars, retry_vars>>

\* no fallback configured or no client: the local result goes back as it is
ReturnWithoutOracle ==
    /\ date_pc = "parsed" /\ ~TrustedLocally(result)
    /\ LET client == openai_client(_openai_client, date_input)
       IN  IF date_input.use_gpt_fallback
           THEN /\ ~client.client
                /\ _openai_client' = client.cache
                /\ constructions' = constructions + client.built
           ELSE UNCHANGED <<_openai_client, constructions>>
    /\ date_returned' = result
    /\ date_pc' = "done"
    /\ UNCHANGED <<date_input, result, gpt_result, date_calls, calls_made>>
    /\ UNCHANGED <<workflow_vars, classifier_vars, match_vars, retry_vars>>

NextDate == ForceGpt \/ LocalParse \/ ReturnLocal \/ Escalate \/ ReturnWithoutOracle

SpecDate == InitDate /\ [][NextDate]_vars

-----------------------------------------------------------------------------
(* One DateParser object over several parse_with_fallback calls *)

\* most calls made on one parser
MaxCalls == 3

\* a text the library reads with good confidence or not at all, an oracle that
\* answers or fails, a key that is set or not at the time of the call
ParserInputs ==
    {in \in DateInputs :
        /\ in.text = "other"
        /\ in.lib \in {[kind |-> "none", date |-> NoDate], [kind |-> "date", date |-> Today + 1]}
        /\ in.oracle \in {[kind |-> "error", date |-> NoDate, confidence |-> 0],
                          [kind |-> "date", date |-> Today + 1, confidence |-> 85]}
        /\ in.tick = 0}

InitParser ==
    /\ current_intent = "NEUTRAL"
    /\ state_data = EmptyDict
    /\ target_task_id = NoTaskId
    /\ pc = "idle"
    /\ call = "none"
    /\ message = <<>>
    /\ intent_result = NoResult
    /\ current_state = EmptyDict
    /\ arg_state = EmptyDict
    /\ date_outcome = NotCalled
    /\ returned_state = EmptyDict
    /\ next_step = None
    /\ saves = 0
    /\ classifier_attrs = EmptyDict
    /\ seen = {}
    /\ MatchIdle
    /\ RetryIdle
    /\ date_input \in ParserInputs
    /\ date_pc = "start"
    /\ result = NoDateResult
    /\ gpt_result = NoDateResult
    /\ date_returned = NoDateResult
    /\ date_calls = <<>>
    /\ _openai_client = NoClient
    /\ constructions = 0
    /\ calls_made = 1

\* the next parse_with_fallback call on the same parser: use_gpt_fallback is the
\* parser's, everything else is the call's
NewCall ==
    /\ date_pc = "done"
    /\ calls_made < MaxCalls
    /\ \E in \in ParserInputs :
          /\ in.use_gpt_fallback = date_input.use_gpt_fallback
          /\ date_input' = in
    /\ date_pc' = "start"
    /\ result' = NoDateResult
    /\ gpt_result' = NoDateResult
    /\ date_returned' = NoDateResult
    /\ date_calls' = <<>>
    /\ calls_made' = calls_made + 1
    /\ UNCHANGED <<_openai_client, constructions>>
    /\ UNCHANGED <<workflow_vars, classifier_vars, match_vars, retry_vars>>

NextParser == NextDate \/ NewCall

SpecParser == InitParser /\ [][NextParser]_vars

-----------------------------------------------------------------------------
(* FuzzyMatcher.find_matches, for every query, task list and threshold *)

InitMatch ==
    /\ current_intent = "NEUTRAL"
    /\ state_data = EmptyDict
    /\ target_task_id = NoTaskId
    /\ pc = "idle"
    /\ call = "none"
    /\ message = <<>>
    /\ intent_result = NoResult
    /\ current_state = EmptyDict
    /\ arg_state = EmptyDict
    /\ date_outcome = NotCalled
    /\ returned_state = EmptyDict
    /\ next_step = None
    /\ saves = 0
    /\ classifier_attrs = EmptyDict
    /\ seen = {}
    /\ DateIdle
    /\ match_input \in MatchInputs
    /\ ~match_input.tasks_given => match_input.tasks = <<>>
    /\ match_pc = "start"
    /\ match_result = NoMatchResult
    /\ RetryIdle

FindMatches ==
    /\ match_pc = "start"
    /\ match_result' = find_matches(match_input)
    /\ match_pc' = "done"
    /\ UNCHANGED match_input
    /\ UNCHANGED <<workflow_vars, date_vars, classifier_vars, retry_vars>>

NextMatch == FindMatches

SpecMatch == InitMatch /\ [][NextMatch]_vars

-----------------------------------------------------------------------------
(* retry_on_db_error: one call of the wrapper, for every decorator argument *)
(* and everything the wrapped function can do at each invocation           *)

InitRetry ==
    /\ current_intent = "NEUTRAL"
    /\ state_data = EmptyDict
    /\ target_task_id = NoTaskId
    /\ pc = "idle"
    /\ call = "none"
    /\ message = <<>>
    /\ intent_result = NoResult
    /\ current_state = EmptyDict
    /\ arg_state = EmptyDict
    /\ date_outcome = NotCalled
    /\ returned_state = EmptyDict
    /\ next_step = None
    /\ saves = 0
    /\ classifier_attrs = EmptyDict
    /\ seen = {}
    /\ DateIdle
    /\ MatchIdle
    /\ retry_input \in RetryInputs
    /\ retry_pc = "loop"
    /\ attempt = 1
    /\ delay = retry_input.initial_delay
    /\ last_exception = NoException
    /\ attempts = <<>>
    /\ slept = <<>>
    /\ retry_outcome = NoException

\* try: return func(*args, **kwargs), and the except clause when it raises
Invoke ==
    /\ retry_pc = "loop"
    /\ attempt <= retry_input.max_attempts
    /\ \E out \in FuncOutcomes :
          /\ attempts' = Append(attempts, out)
          /\ IF out = Returned_ok
             THEN /\ retry_pc' = "returned"
                  /\ retry_outcome' = out
                  /\ UNCHANGED last_exception
             ELSE IF out.class \in DatabaseErrors
             THEN LET next == AfterDatabaseError(attempt, retry_input.max_attempts, out)
                  IN  /\ last_exception' = out
                      /\ retry_pc' = next
                      /\ retry_outcome' = IF next = "raised" THEN out ELSE retry_outcome
             ELSE /\ retry_pc' = "raised"
                  /\ retry_outcome' = out
                  /\ UNCHANGED last_exception
    /\ UNCHANGED <<retry_input, attempt, delay, slept>>
    /\ UNCHANGED <<workflow_vars, date_vars, classifier_vars, match_vars>>

\* time.sleep(delay); delay *= backoff_factor; and the next round of the loop
Backoff ==
    /\ retry_pc = "sleep"
    /\ slept' = Append(slept, delay)
    /\ delay' = delay * retry_input.backoff_factor
    /\ attempt' = attempt + 1
    /\ retry_pc' = "loop"
    /\ UNCHANGED <<retry_input, last_exception, attempts, retry_outcome>>
    /\ UNCHANGED <<workflow_vars, date_vars, classifier_vars, match_vars>>

\* the loop is over: raise last_exception
Exhausted ==
    /\ retry_pc = "loop"
    /\ attempt > retry_input.max_attempts
    /\ retry_pc' = "raised"
    /\ retry_outcome' = IF last_exception = NoException THEN TypeError ELSE last_exception
    /\ UNCHANGED <<retry_input, attempt, delay, last_exception, attempts, slept>>
    /\ UNCHANGED <<workflow_vars, date_vars, classifier_vars, match_vars>>

NextRetry == Invoke \/ Backoff \/ Exhausted

SpecRetry == InitRetry /\ [][NextRetry]_vars

\* the interpreter keeps running the call: a step that can be taken is taken
SpecRetryLive == SpecRetry /\ WF_vars(NextRetry)

-----------------------------------------------------------------------------
(* Properties *)

CollectCalls == {"collect_add", "collect_update", "collect_delete", "collect_complete"}

\* the step sequence a collect call walks
StepsOf(c) ==
    CASE c = "collect_add"      -> ADD_TASK_STEPS
      [] c = "collect_update"   -> UPDATE_TASK_STEPS
      [] c = "collect_delete"   -> DELETE_TASK_STEPS
      [] c = "collect_complete" -> COMPLETE_TASK_STEPS

\* position of a step name in a sequence, 0 when it is not one of its steps
StepPos(steps, name) ==
    IF \E i \in 1..Len(steps) : steps[i] = name
    THEN CHOOSE i \in 1..Len(steps) : steps[i] = name
    ELSE 0

FinalStep(c) == StepsOf(c)[Len(StepsOf(c))]

\* the command intent of the operation a phase belongs to
OwnCommand(phase) ==
    CASE phase = "ADDING_TASK"     -> "ADD_TASK"
      [] phase = "UPDATING_TASK"   -> "UPDATE_TASK"
      [] phase = "DELETING_TASK"   -> "DELETE_TASK"
      [] phase = "COMPLETING_TASK" -> "COMPLETE_TASK"
      [] OTHER                     -> None

Commands == {"ADD_TASK", "UPDATE_TASK", "DELETE_TASK", "COMPLETE_TASK", "LIST_TASKS"}

\* the commands whose patterns a lower-cased message matches
CommandsNamed(m) ==
    {c \in Commands :
        \/ c = "ADD_TASK" /\ ADD_PATTERNS(m)
        \/ c = "UPDATE_TASK" /\ UPDATE_PATTERNS(m)
        \/ c = "DELETE_TASK" /\ DELETE_PATTERNS(m)
        \/ c = "COMPLETE_TASK" /\ COMPLETE_PATTERNS(m)
        \/ c = "LIST_TASKS" /\ LIST_PATTERNS(m)}

OperationVerbs == {"delete", "update", "show", "complete"}

ClassifyReturned == pc = "returned" /\ call = "classify"

CollectReturned == pc = "returned" /\ call \in CollectCalls

\* C1: in every non-NEUTRAL phase, a phrase with an operation verb (delete, update,
\* show, complete) that names exactly one command, a command of another operation
\* than the phase's, and is no cancellation, is classified as that command and
\* carries the task id the phrase gives.
C1_CommandNeverSwallowed ==
    \A c \in Commands \ {"ADD_TASK"} :
        ( /\ ClassifyReturned
          /\ current_intent # "NEUTRAL"
          /\ c # OwnCommand(current_intent)
          /\ HasTok(Lower(message), OperationVerbs)
          /\ CommandsNamed(Lower(message)) = {c}
          /\ ~CANCEL_PATTERNS(Lower(message)) )
        => /\ intent_result.intent_type = c
           /\ (\E i \in 1..Len(message) : TaskIdAt(Lower(message), i))
                  => Has(intent_result.extracted_entities, "task_id")

\* C2: in every phase, a message that matches a cancellation pattern is classified
\* CANCEL_OPERATION.
C2_CancelAlwaysWins ==
    (ClassifyReturned /\ CANCEL_PATTERNS(Lower(message)))
        => intent_result.intent_type = "CANCEL_OPERATION"

\* C3: in each workflow, at every step and for every accumulated state, a message
\* classified CANCEL_OPERATION makes the collect call return the step "cancel".
C3_CancelYieldsCancelStep ==
    (CollectReturned /\ intent_result.intent_type = "CANCEL_OPERATION")
        => next_step = "cancel"

C3_Witness ==
    /\ CollectReturned /\ call = "collect_add"
    /\ intent_result.intent_type = "CANCEL_OPERATION"
    /\ Has(current_state, "priority") /\ current_state.step = "deadline"
    /\ next_step = "cancel"

\* C4: in each workflow, at every step, a message classified as a command of another
\* operation makes the collect call return "switch_intent" and leaves the
\* accumulated state as it was: nothing is stored and the state comes back unchanged.
C4_OtherCommandSwitches ==
    (CollectReturned /\ intent_result.intent_type \in Commands \ {OwnCommand(current_intent)})
        => /\ next_step = "switch_intent"
           /\ saves = 0
           /\ returned_state = current_state
           /\ state_data = current_state

C4_Witness ==
    /\ CollectReturned /\ call = "collect_add"
    /\ current_intent = "ADDING_TASK"
    /\ intent_result.intent_type = "LIST_TASKS"
    /\ next_step = "switch_intent"

\* C5: a collect call never moves the stored step to an earlier position of the
\* operation's sequence; it stays or moves forward.
C5_NoBackwardStep ==
    CollectReturned
        => StepPos(StepsOf(call), returned_state.step) >= StepPos(StepsOf(call), current_state.step)

\* the date step repeating after a date that did not parse
C5_Witness ==
    /\ CollectReturned /\ call = "collect_add"
    /\ current_state.step = "deadline" /\ state_data.step = "deadline"
    /\ Has(state_data, "date_error")
    /\ next_step = "deadline"

StepChanged == CollectReturned /\ returned_state.step # current_state.step

StepAdvance ==
    StepPos(StepsOf(call), returned_state.step) - StepPos(StepsOf(call), current_state.step)

\* C6 as stated: every collect call that changes the step moves it to the immediate
\* successor in the operation's sequence.
C6_AlwaysImmediateSuccessor ==
    StepChanged => StepAdvance = 1

\* the three places where a reply carries what the next step would ask for
SkippingTransitions ==
    { <<"collect_add", "confirm", "deadline">>,
      <<"collect_update", "show_details", "confirm">>,
      <<"collect_delete", "show_details", "execute">> }

\* C6 amended: a collect call that changes the step moves it to the immediate
\* successor, or over exactly one step in three places: add confirm -> deadline
\* (the reply gives a priority), update show_details -> confirm (the reply gives
\* changes), delete show_details -> execute (the reply is a yes).
C6_SuccessorOrKnownSkip ==
    StepChanged =>
        \/ StepAdvance = 1
        \/ /\ StepAdvance = 2
           /\ <<call, current_state.step, returned_state.step>> \in SkippingTransitions

C6_Witness ==
    /\ StepChanged /\ call = "collect_delete"
    /\ current_state.step = "show_details" /\ returned_state.step = "execute"
    /\ intent_result.extracted_entities = [confirmation |-> TRUE]

\* a collect call that has just moved the stored step onto the sequence's last step
ReachedFinalStep == StepChanged /\ returned_state.step = FinalStep(call)

\* C7 as stated: in all four workflows a collect call that reaches the final step
\* returns the step name "execute".
C7_FinalStepReturnsExecute ==
    ReachedFinalStep => next_step = "execute"

\* C7 amended: a collect call that reaches the final step returns that step's name,
\* "execute" in the update, delete and complete workflows and "create" in the add
\* workflow.
C7_FinalStepReturnsItsName ==
    ReachedFinalStep =>
        /\ next_step = FinalStep(call)
        /\ next_step = (IF call = "collect_add" THEN "create" ELSE "execute")

C7_Witness ==
    /\ ReachedFinalStep /\ call = "collect_add"
    /\ current_state.step = "description"
    /\ next_step = "create"

C9_TargetAssignedOnce ==
    CollectReturned =>
        /\ Has(current_state, "target_task_id")
              => /\ Has(returned_state, "target_task_id")
                 /\ returned_state.target_task_id = current_state.target_task_id
                 /\ Has(state_data, "target_task_id")
                 /\ state_data.target_task_id = current_state.target_task_id
        /\ target_task_id # NoTaskId
              => /\ Has(state_data, "target_task_id")
                 /\ state_data.target_task_id = target_task_id

\* a later message names task 7 while task 5 is the target
C9_Witness ==
    /\ CollectReturned /\ call = "collect_update"
    /\ Has(current_state, "target_task_id") /\ current_state.target_task_id = 5
    /\ message = <<"update", "task", "7">>
    /\ saves = 1
    /\ state_data.target_task_id = 5

\* the fields each operation's steps collect
FieldsOf(phase) ==
    CASE phase = "ADDING_TASK" ->
            {"step", "title", "priority", "due_date", "due_date_raw", "due_date_parsed",
             "date_error", "description"}
      [] phase = "UPDATING_TASK"   -> {"step", "target_task_id", "task_name", "changes"}
      [] phase = "DELETING_TASK"   -> {"step", "target_task_id", "task_name"}
      [] phase = "COMPLETING_TASK" -> {"step", "target_task_id", "task_name", "toggle_to"}
      [] OTHER                     -> {}

\* C10: the persisted accumulated data holds only fields of the active operation,
\* and a "changes" field only while the active operation is UPDATING_TASK.
C10_FieldsBelongToPhase ==
    /\ DOMAIN state_data \subseteq FieldsOf(current_intent)
    /\ Has(state_data, "changes") => current_intent = "UPDATING_TASK"

C10_Witness ==
    /\ CollectReturned /\ current_intent = "UPDATING_TASK"
    /\ Has(state_data, "changes") /\ DOMAIN state_data.changes # {}
    /\ state_data.step = "confirm"

\* C11: every field the accumulated data holds before a collect call is still in
\* the returned and in the persisted data after it, and so is every field of the
\* collected changes.
C11_FieldsAccumulate ==
    CollectReturned =>
        /\ DOMAIN current_state \subseteq DOMAIN returned_state
        /\ DOMAIN current_state \subseteq DOMAIN state_data
        /\ Has(current_state, "changes")
              => DOMAIN current_state.changes \subseteq DOMAIN state_data.changes

\* the deadline step is left behind with the date error of an earlier reply kept
C11_Witness ==
    /\ CollectReturned /\ call = "collect_add"
    /\ current_state.step = "deadline" /\ Has(current_state, "date_error")
    /\ state_data.step = "description"
    /\ Has(state_data, "date_error") /\ Has(state_data, "title")

FailingDates == {"past", "far_future", "unparsed"}

\* a collect_add call whose step logic ran at the "deadline" step
AtDeadlineStep ==
    /\ CollectReturned /\ call = "collect_add"
    /\ current_state.step = "deadline"
    /\ intent_result.intent_type \in {"PROVIDE_INFORMATION", "ADD_TASK"}

\* C13: at the add workflow's deadline step, when the Date Resolver is asked and
\* fails (unparsable, past or too far in the future), the call returns "deadline",
\* the stored step stays "deadline" and nothing but the date error is added to the
\* accumulated data; the same holds when the step had already failed before.
C13_FailedDateRepeatsDeadline ==
    (AtDeadlineStep /\ date_outcome \in FailingDates)
        => /\ next_step = "deadline"
           /\ state_data.step = "deadline"
           /\ Has(state_data, "date_error")
           /\ ~Has(state_data, "due_date_raw") /\ ~Has(state_data, "due_date_parsed")
           /\ returned_state = Put(current_state, "date_error", returned_state.date_error)
           /\ state_data = returned_state

\* a second failing reply in a row
C13_Witness ==
    /\ AtDeadlineStep /\ date_outcome = "far_future"
    /\ Has(current_state, "date_error")
    /\ next_step = "deadline"

\* replies that say there is no deadline
NoDeadlineReplies == {<<"skip">>, <<"no", "deadline">>}

\* C14: at the add workflow's deadline step, a reply that says there is no deadline
\* moves the workflow to "description", the Date Resolver is not called, and the
\* only thing recorded is an empty due_date_raw.
C14_NoDeadlineSkipsToDescription ==
    (AtDeadlineStep /\ message \in NoDeadlineReplies)
        => /\ next_step = "description"
           /\ state_data.step = "description"
           /\ date_outcome = NotCalled
           /\ state_data.due_date_raw = NoneText
           /\ ~Has(state_data, "due_date_parsed")
           /\ state_data = Put(Put(current_state, "due_date_raw", NoneText), "step", "description")

C14_Witness ==
    /\ AtDeadlineStep /\ message = <<"no", "deadline">>
    /\ next_step = "description" /\ date_outcome = NotCalled

InitializedAdd == pc = "returned" /\ call = "initialize_add"

OptionalAddFields == {"priority", "due_date", "description"}

\* C15: initialize_add_task_state with priority, due date and description all
\* given yields step "create" at once; with none of them it yields step "confirm";
\* either way the title is stored and the state is persisted under ADDING_TASK.
C15_InitialAddStep ==
    InitializedAdd =>
        /\ OptionalAddFields \subseteq DOMAIN returned_state => returned_state.step = "create"
        /\ OptionalAddFields \cap DOMAIN returned_state = {} => returned_state.step = "confirm"
        /\ returned_state.title \in Titles
        /\ next_step = returned_state.step
        /\ current_intent = "ADDING_TASK" /\ state_data = returned_state

C15_Witness ==
    /\ InitializedAdd
    /\ returned_state = [title |-> <<"buy", "milk">>, step |-> "create", priority |-> "high",
                         due_date |-> "2026-02-01", description |-> <<"from", "store">>]

\* a collect call of the update, delete or complete workflow whose step logic ran
\* at the "confirm" step
AtConfirmStep ==
    /\ CollectReturned /\ call \in {"collect_update", "collect_delete", "collect_complete"}
    /\ current_state.step = "confirm"
    /\ intent_result.intent_type \in {"PROVIDE_INFORMATION", OwnCommand(current_intent)}

\* the yes / no the classifier found in the reply: "yes", "no" or "other"
ReplyKind ==
    IF ~Has(intent_result.extracted_entities, "confirmation") THEN "other"
    ELSE IF intent_result.extracted_entities.confirmation THEN "yes" ELSE "no"

\* C16: at the confirm step of the update, delete and complete workflows a yes
\* returns "execute" and stores that step, a no returns "cancel" and any other
\* in-phase reply returns "confirm"; in the last two the state is left as it was.
C16_ConfirmStepOutcomes ==
    AtConfirmStep =>
        CASE ReplyKind = "yes" -> /\ next_step = "execute"
                                  /\ returned_state = Put(current_state, "step", "execute")
          [] ReplyKind = "no"  -> next_step = "cancel" /\ returned_state = current_state
          [] OTHER             -> next_step = "confirm" /\ returned_state = current_state

\* a reply that is neither yes nor no
C16_Witness ==
    /\ AtConfirmStep /\ call = "collect_complete"
    /\ ReplyKind = "other" /\ message = <<"urgent">>
    /\ next_step = "confirm" /\ state_data.step = "confirm"

\* the result of a collect call as a function of its arguments
CollectResult(c, msg, cur, dp) ==
    CASE c = "collect_add"      -> collect_add_task_information(msg, cur, dp)
      [] c = "collect_update"   -> collect_update_task_information(msg, cur, dp)
      [] c = "collect_delete"   -> collect_delete_task_information(msg, cur)
      [] c = "collect_complete" -> collect_complete_task_information(msg, cur)

-----------------------------------------------------------------------------
(* C18 - C20: DateParser.parse_with_fallback *)

DateDone == date_pc = "done"

OracleAsked == \E i \in 1..Len(date_calls) : date_calls[i] = "oracle"

LocalAsked == \E i \in 1..Len(date_calls) : date_calls[i] = "parse"

\* the local result failed outright or succeeded with confidence below 0.6
LocalNotGoodEnough == ~result.success \/ result.confidence < GPT_FALLBACK_THRESHOLD

OracleReachable == date_input.use_gpt_fallback /\ date_input.client_available

\* C18 as stated: every call of parse_with_fallback invokes the local resolver
\* first, and asks the oracle if and only if the local result failed or
\* succeeded with confidence below 0.6.
C18_LocalFirstOracleIffWeak ==
    DateDone =>
        /\ date_calls # <<>> /\ date_calls[1] = "parse"
        /\ OracleAsked <=> LocalNotGoodEnough

\* C18, amended: unless force_gpt is set, the local resolver is invoked first
\* and the oracle is asked if and only if the local result failed or succeeded
\* with confidence below 0.6 AND the fallback is enabled AND a client is
\* available; a local success with confidence at or above 0.6 is returned
\* without any oracle call. With force_gpt the local resolver is not invoked.
C18_LocalFirstUnlessForcedOracleIffWeakAndReachable ==
    DateDone =>
        IF date_input.force_gpt
        THEN /\ ~LocalAsked
             /\ OracleAsked <=> OracleReachable
        ELSE /\ date_calls # <<>> /\ date_calls[1] = "parse"
             /\ OracleAsked <=> (LocalNotGoodEnough /\ OracleReachable)
             /\ ~LocalNotGoodEnough => date_returned = result /\ date_calls = <<"parse">>

\* a local success of confidence 0.5 was handed to the oracle after the local parse
C18_Witness ==
    /\ DateDone /\ ~date_input.force_gpt
    /\ result.success /\ result.confidence < GPT_FALLBACK_THRESHOLD
    /\ date_calls = <<"parse", "oracle">>

\* C19: when the oracle was asked after the local resolver and failed too, the
\* local result comes back unchanged, failure reason included.
C19_OracleFailureKeepsLocalResult ==
    (DateDone /\ LocalAsked /\ OracleAsked /\ ~gpt_result.success) =>
        /\ date_returned = result
        /\ date_returned # NoDateResult

\* the local parse failed, the oracle failed for another reason, the local reason is returned
C19_Witness ==
    /\ DateDone /\ date_calls = <<"parse", "oracle">>
    /\ ~result.success /\ result.error_message = "unparsed"
    /\ ~gpt_result.success /\ gpt_result.error_message = "gpt_declined"
    /\ date_returned.error_message = "unparsed"

\* C20: a date the oracle gave is returned as a success only if it is not
\* before now and not more than 10 years (3650 days) after now; an oracle date
\* outside that range makes the oracle's result a failure.
C20_OracleDateValidated ==
    (DateDone /\ OracleAsked /\ date_input.oracle.kind = "date") =>
        /\ gpt_result.success =>
              /\ gpt_result.parsed_date >= Today
              /\ gpt_result.parsed_date <= Today + date_input.tick + Horizon
        /\ date_input.oracle.date < Today =>
              ~gpt_result.success /\ gpt_result.error_message = "past"
        /\ date_input.oracle.date > Today + date_input.tick + Horizon =>
              ~gpt_result.success /\ gpt_result.error_message = "far_future"
        /\ (date_returned.success /\ (date_input.force_gpt \/ LocalNotGoodEnough)) =>
              /\ date_returned.parsed_date >= Today
              /\ date_returned.parsed_date <= Today + date_input.tick + Horizon

\* the local parse failed and the oracle's date, the last day allowed, is returned
C20_Witness ==
    /\ DateDone /\ date_calls = <<"parse", "oracle">>
    /\ ~result.success
    /\ date_returned.success
    /\ date_returned.parsed_date = date_input.oracle.date
    /\ date_returned.parsed_date = Today + date_input.tick + Horizon

-----------------------------------------------------------------------------
(* C21 - C24: the oracle's failures, the local validations, empty input,    *)
(* the client                                                                *)

\* the oracle was asked in a call that has ended, and it malfunctioned: the
\* request failed or timed out, the reply was no JSON, lacked a date field or
\* lacked "success"
OracleMalfunctioned ==
    /\ date_pc \in {"done", "raised"}
    /\ OracleAsked
    /\ date_input.oracle.kind \in Malfunctions \cup {"no_success"}

OracleCalls == Cardinality({i \in 1..Len(date_calls) : date_calls[i] = "oracle"})

\* C21 as stated: after any oracle malfunction no exception leaves the
\* resolver, the oracle was asked once, and the caller has the result the
\* local resolver produces for that input.
C21_MalfunctionGivesLocalResult ==
    OracleMalfunctioned =>
        /\ date_pc = "done"
        /\ OracleCalls = 1
        /\ date_returned = parse(date_input)

\* C21, amended: after any oracle malfunction no exception leaves the resolver
\* and the oracle was asked once; when the oracle was asked as a fallback
\* (force_gpt not set) the caller has the local resolver's result, which is a
\* failure or a success of confidence below 0.6; with force_gpt the caller has
\* the oracle's failure result.
C21_MalfunctionGivesLocalResultUnlessForced ==
    OracleMalfunctioned =>
        /\ date_pc = "done"
        /\ OracleCalls = 1
        /\ ~gpt_result.success
        /\ IF date_input.force_gpt
           THEN date_returned = gpt_result /\ ~LocalAsked
           ELSE /\ date_returned = result
                /\ result = parse(date_input)
                /\ LocalNotGoodEnough

\* the request raised after the library found no date: the caller is told so
C21_Witness ==
    /\ date_pc = "done" /\ date_calls = <<"parse", "oracle">>
    /\ date_input.oracle.kind = "error"
    /\ gpt_result.error_message = "gpt_failed"
    /\ date_returned.error_message = "unparsed"

\* the local resolver has run on a text the library read a date from
LocalParsedADate ==
    /\ LocalAsked
    /\ date_input.text # "empty"
    /\ date_input.lib.kind = "date"

\* C22: the local resolver returns success only for an instant that is not
\* before now and not more than 10 years (3650 days) after now; an earlier
\* instant is rejected with the past reason, a later one with the
\* future-limit reason.
C22_LocalDateValidated ==
    /\ (LocalAsked /\ result.success) =>
          /\ date_input.lib.kind = "date"
          /\ result.parsed_date = date_input.lib.date
          /\ result.parsed_date >= Today
          /\ result.parsed_date <= Today + date_input.tick + Horizon
    /\ LocalParsedADate =>
          /\ date_input.lib.date < Today =>
                ~result.success /\ result.error_message = "past"
          /\ date_input.lib.date > Today + date_input.tick + Horizon =>
                ~result.success /\ result.error_message = "far_future"

\* the library read the day after the last one allowed: rejected for the future limit
C22_Witness ==
    /\ date_pc = "parsed"
    /\ LocalParsedADate
    /\ date_input.lib.date = Today + date_input.tick + Horizon + 1
    /\ result.error_message = "far_future"

\* C23: for an empty, blank or absent text the resolver returns the "cannot
\* be empty" failure at once and asks no downstream parser, the oracle
\* included, whichever entry point was called (parse or parse_with_fallback).
C23_EmptyInputAsksNobody ==
    (date_input.text = "empty" /\ date_pc \in {"parsed", "done"}) =>
        /\ ~OracleAsked
        /\ LocalAsked => result = Failure("empty")
        /\ DateDone => date_returned = Failure("empty")

-----------------------------------------------------------------------------
(* C25 - C28: the classifier *)

\* a classify call has ended, by returning or by raising
ClassifyEnded == pc \in {"returned", "raised"} /\ call = "classify"

\* C25: classify raises for no message and no phase, and for an empty or
\* blank message it returns UNKNOWN with confidence 0 and no entities in every
\* phase.
C25_NeverRaisesEmptyIsUnknown ==
    ClassifyEnded =>
        /\ pc = "returned"
        /\ intent_result.intent_type \in Intents
        /\ message = <<>> => intent_result = IntentResult("UNKNOWN", 0, EmptyDict)

\* the order in which classify tries the commands
CommandOrder == <<"LIST_TASKS", "ADD_TASK", "DELETE_TASK", "UPDATE_TASK", "COMPLETE_TASK">>

\* the first command of CommandOrder among those a lower-cased message names
FirstNamed(m) ==
    CommandOrder[CHOOSE i \in 1..Len(CommandOrder) :
        /\ CommandOrder[i] \in CommandsNamed(m)
        /\ \A j \in 1..(i - 1) : CommandOrder[j] \notin CommandsNamed(m)]

NamesSeveralCommands == Cardinality(CommandsNamed(Lower(message))) >= 2

\* classify takes the message for an answer to the running operation
TakenAsInformation ==
    /\ current_intent # "NEUTRAL"
    /\ _classify_as_information(Lower(message), current_intent) # NoResult

ClaimedKeywords ==
    [high   |-> {"high", "urgent", "critical", "important", "asap"},
     low    |-> {"low", "minor", "trivial", "someday", "later"},
     medium |-> {"medium", "normal", "regular"}]

\* the priority words of IntentClassifier._extract_priority, by level
ClassifierKeywords ==
    [high   |-> {"high", "urgent", "important"},
     low    |-> {"low"},
     medium |-> {"medium", "normal"}]

Levels == {"high", "medium", "low"}

\* the message holds words of the level l of K and of no other level
OnlyLevel(K, l) ==
    /\ HasTok(Lower(message), K[l])
    /\ \A o \in Levels \ {l} : ~HasTok(Lower(message), K[o])

-----------------------------------------------------------------------------
(* C29 - C30: FuzzyMatcher.find_matches *)

\* a find_matches call with a query and a non-empty task list has returned
Searched ==
    /\ match_pc = "done"
    /\ ~Blank(match_input.query)
    /\ match_input.tasks_given
    /\ match_input.tasks # <<>>

BestScore(task) == Max(task.title_score, task.description_score)

\* positions of the tasks whose best score reaches the multi threshold of the call
Reaching ==
    {i \in 1..Len(match_input.tasks) :
        BestScore(match_input.tasks[i]) >= match_input.multiple_match_threshold}

\* C29: when exactly one task reaches the multi threshold and its score is
\* below the single threshold, find_matches fails with an empty match list.
C29_SingleWeakCandidateIsNoMatch ==
    ( /\ Searched
      /\ Cardinality(Reaching) = 1
      /\ \A i \in Reaching : BestScore(match_input.tasks[i]) < match_input.single_match_threshold )
        => /\ ~match_result.success
           /\ match_result.matches = <<>>
           /\ match_result.error_message = "no_confident_match"

\* three tasks, only the second reaches 60 and stays under 70: nothing is returned
C29_Witness ==
    /\ Searched
    /\ Len(match_input.tasks) = 3
    /\ match_input.multiple_match_threshold = DEFAULT_MULTIPLE_MATCH_THRESHOLD
    /\ Reaching = {2}
    /\ BestScore(match_input.tasks[2]) = DEFAULT_SINGLE_MATCH_THRESHOLD - 1
    /\ match_result = MatchFailure("no_confident_match")

\* C30: every entry of a find_matches result has a score at or above the
\* multi threshold passed to the call, and when no task reaches it the result
\* is a failure with an empty match list.
C30_ResultsReachMultiThreshold ==
    /\ match_pc = "done" =>
          \A i \in 1..Len(match_result.matches) :
              /\ match_result.matches[i].score >= match_input.multiple_match_threshold
              /\ match_result.matches[i].task_id \in Reaching
    /\ (Searched /\ Reaching = {}) =>
          /\ ~match_result.success
          /\ match_result.matches = <<>>
          /\ match_result.error_message = "no_match"

\* multi threshold 70 passed: of a 69 and two 70s only the 70s are returned
C30_Witness ==
    /\ Searched
    /\ match_input.multiple_match_threshold = DEFAULT_SINGLE_MATCH_THRESHOLD
    /\ Len(match_input.tasks) = 3
    /\ BestScore(match_input.tasks[1]) = DEFAULT_SINGLE_MATCH_THRESHOLD - 1
    /\ Reaching = {2, 3}
    /\ match_result.success
    /\ Len(match_result.matches) = 2

-----------------------------------------------------------------------------
(* C31 - C32, C35: FuzzyMatcher.find_matches *)

\* entry a ranks above entry b: a higher score, or the same score and a shorter title
RanksAbove(a, b) ==
    \/ a.score > b.score
    \/ a.score = b.score /\ a.title_len < b.title_len

\* the positions of the task list that the returned matches name
Returned == {match_result.matches[k].task_id : k \in 1..Len(match_result.matches)}

\* C31: the match list of a find_matches call holds candidates only, each
\* once, never more than max_results of them and, when the call succeeds, as
\* many as max_results allows; no entry ranks above the entry before it (score
\* descending, equal scores shorter title first), and no candidate left out
\* ranks above a returned one.
C31_RankedAndLimited ==
    match_pc = "done" =>
        LET matches == match_result.matches
        IN  /\ Len(matches) <= match_input.max_results
            /\ Returned \subseteq Reaching
            /\ Cardinality(Returned) = Len(matches)
            /\ \A k \in 1..Len(matches) :
                  matches[k] = Match(match_input.tasks, matches[k].task_id)
            /\ \A k \in 1..(Len(matches) - 1) : ~RanksAbove(matches[k + 1], matches[k])
            /\ \A i \in Reaching \ Returned : \A k \in 1..Len(matches) :
                  ~RanksAbove(Match(match_input.tasks, i), matches[k])
            /\ match_result.success =>
                  \/ Len(matches) = match_input.max_results
                  \/ Len(matches) = Cardinality(Reaching)

\* three candidates of score 70, the short title last in the list: with
\* max_results 2 the short title comes first and one long title is left out
C31_Witness ==
    /\ Searched
    /\ match_input.max_results = 2
    /\ Reaching = {1, 2, 3}
    /\ \A i \in 1..3 : BestScore(match_input.tasks[i]) = DEFAULT_SINGLE_MATCH_THRESHOLD
    /\ match_input.tasks[1].title_len = 8
    /\ match_input.tasks[2].title_len = 8
    /\ match_input.tasks[3].title_len = 3
    /\ match_result.success
    /\ Returned = {3, 1}
    /\ match_result.matches[1].task_id = 3

\* the query of the call is absent, empty or white space
QueryMissing == match_input.query \in {None, "", " "}

\* C32: a find_matches call with an absent, empty or blank query, with no
\* task list or with an empty task list returns (it does not raise) a failure
\* with an empty match list and the reason of the first check that failed.
C32_FailsCleanlyOnMissingInput ==
    ( /\ match_pc # "start"
      /\ QueryMissing \/ ~match_input.tasks_given \/ match_input.tasks = <<>> )
        => /\ match_pc = "done"
           /\ ~match_result.success
           /\ match_result.matches = <<>>
           /\ match_result.error_message =
                 IF QueryMissing THEN "empty_query"
                 ELSE IF ~match_input.tasks_given THEN "tasks_none"
                 ELSE "no_tasks"

\* a blank query against a list whose task would score 70: still a failure
C32_Witness ==
    /\ match_pc = "done"
    /\ match_input.query = " "
    /\ match_input.tasks_given
    /\ Len(match_input.tasks) = 1
    /\ BestScore(match_input.tasks[1]) = DEFAULT_SINGLE_MATCH_THRESHOLD
    /\ match_result = MatchFailure("empty_query")

\* C35: a successful find_matches result with exactly one entry has a score
\* at or above the single threshold of the call, whatever max_results is.
C35_SingleResultIsConfident ==
    ( /\ match_pc = "done"
      /\ match_result.success
      /\ Len(match_result.matches) = 1 )
        => match_result.matches[1].score >= match_input.single_match_threshold

-----------------------------------------------------------------------------
(* C33 - C34, C36 - C38: the workflow engine *)

\* the message of the last call is one word of the yes pattern and nothing else
YesMessage == Len(message) = 1 /\ Lower(message)[1] \in YesWords

\* C33: a collect call of the update, delete or complete workflow returns
\* "execute" only for a message that is a yes: one word of the classifier's
\* yes pattern, classified as information with confirmation = true.
C33_ExecuteOnlyOnYes ==
    ( /\ CollectReturned
      /\ call \in {"collect_update", "collect_delete", "collect_complete"}
      /\ next_step = "execute" )
        => /\ YesMessage
           /\ intent_result.intent_type = "PROVIDE_INFORMATION"
           /\ Has(intent_result.extracted_entities, "confirmation")
           /\ intent_result.extracted_entities.confirmation

\* a yes at the confirm step of the update workflow executes it
C33_Witness ==
    /\ CollectReturned /\ call = "collect_update"
    /\ current_state.step = "confirm"
    /\ message = <<"yes">>
    /\ next_step = "execute"

\* C34: a collect call returns "switch_intent" only when the message was
\* classified as a command of another operation than the active one; every
\* other classification that is no cancellation, UNKNOWN included, goes to the
\* logic of the current step.
C34_SwitchOnlyOnOtherCommand ==
    (CollectReturned /\ next_step = "switch_intent")
        => intent_result.intent_type \in Commands \ {OwnCommand(current_intent)}

\* C36: at the confirm step of each of the four workflows a reply classified
\* as a no (confirmation = false) makes the collect call return "cancel".
C36_NoAtConfirmCancels ==
    ( /\ CollectReturned
      /\ Has(current_state, "step") /\ current_state.step = "confirm"
      /\ intent_result.intent_type = "PROVIDE_INFORMATION"
      /\ Has(intent_result.extracted_entities, "confirmation")
      /\ ~intent_result.extracted_entities.confirmation )
        => next_step = "cancel"

\* the step names of the operation a phase belongs to
PhaseSteps(phase) ==
    LET steps == CASE phase = "ADDING_TASK"     -> ADD_TASK_STEPS
                   [] phase = "UPDATING_TASK"   -> UPDATE_TASK_STEPS
                   [] phase = "DELETING_TASK"   -> DELETE_TASK_STEPS
                   [] phase = "COMPLETING_TASK" -> COMPLETE_TASK_STEPS
                   [] OTHER                     -> <<>>
    IN  {steps[i] : i \in 1..Len(steps)}

\* C37: while an operation is active the stored state has a step and it is a
\* step of that operation's sequence, and every step name a collect call
\* returns is a step of the sequence, "cancel" or "switch_intent".
C37_StepsStayInSequence ==
    /\ current_intent # "NEUTRAL" =>
          /\ Has(state_data, "step")
          /\ state_data.step \in PhaseSteps(current_intent)
    /\ CollectReturned =>
          /\ next_step \in PhaseSteps(current_intent) \cup {"cancel", "switch_intent"}
          /\ Has(returned_state, "step")
          /\ returned_state.step \in PhaseSteps(current_intent)

\* a delete workflow started with a known task, two replies later: stored step
\* "confirm", reached from "show_details"
C37_Witness ==
    /\ CollectReturned /\ call = "collect_delete"
    /\ current_state.step = "show_details"
    /\ Has(current_state, "target_task_id")
    /\ next_step = "confirm"
    /\ state_data.step = "confirm"

\* the Add step that asks for a field, and the key initialize_add_task_state
\* seeds the field under.  The key "due_date" is written by initialize only
\* (the deadline step writes "due_date_raw" and "due_date_parsed"); the steps
\* that write "priority" and "description" leave the step that asks for them.
\* So a stored step together with its seeded key means the field was supplied.
AskedAgain(st) ==
    \/ st.step = "priority" /\ Has(st, "priority")
    \/ st.step = "deadline" /\ Has(st, "due_date")
    \/ st.step = "description" /\ Has(st, "description")

\* C38: the Add workflow is never on the step that collects a field that was
\* supplied to initialize_add_task_state, and a collect call never changes the
\* value of a field that the state it was passed already holds.
C38_SuppliedFieldsSkippedAndKept ==
    /\ current_intent = "ADDING_TASK" => ~AskedAgain(state_data)
    /\ (CollectReturned /\ call = "collect_add") =>
          \A k \in {"priority", "due_date", "description"} :
              Has(current_state, k) =>
                  Has(returned_state, k) /\ returned_state[k] = current_state[k]

-----------------------------------------------------------------------------
(* C39 - C40: retry_on_db_error *)

\* the wrapper call has ended
RetryEnded == retry_pc \in {"returned", "raised"}

\* the wrapped function was invoked and every invocation raised
EveryAttemptFailed ==
    /\ attempts # <<>>
    /\ \A k \in 1..Len(attempts) : attempts[k] # Returned_ok

\* what holds at every moment of a wrapper call
WithinAttempts ==
    /\ Len(attempts) <= retry_input.max_attempts
    /\ retry_pc = "returned" =>
          /\ attempts # <<>>
          /\ attempts[Len(attempts)] = Returned_ok
          /\ retry_outcome = Returned_ok
    /\ (RetryEnded /\ EveryAttemptFailed) =>
          /\ retry_pc = "raised"
          /\ retry_outcome = attempts[Len(attempts)]

\* C39: a call through the wrapper ends; the wrapped function is invoked at
\* most max_attempts times; the wrapper returns only what the wrapped function
\* returned, and when every invocation failed it raises the exception of the
\* last one.
C39_EndsWithinMaxAttempts ==
    /\ []WithinAttempts
    /\ <>RetryEnded

\* three transient failures, the last of another kind than the first: the last one is raised
C39_Witness ==
    /\ retry_pc = "raised"
    /\ retry_input.max_attempts = MaxAttempts
    /\ Len(attempts) = MaxAttempts
    /\ attempts[1] = [class |-> "OperationalError", message |-> <<"connection", "refused">>]
    /\ attempts[Len(attempts)] = [class |-> "DBAPIError", message |-> <<"Timeout", "expired">>]
    /\ retry_outcome = attempts[Len(attempts)]

\* a database error whose message mentions connection, timeout, server closed or lost connection
MentionsTransient(e) ==
    /\ e.class \in {"OperationalError", "DBAPIError"}
    /\ e.message \in { <<"connection", "refused">>, <<"Timeout", "expired">>,
                       <<"server", "closed", "unexpectedly">>, <<"too", "many", "connections">> }

\* C40: the wrapper sleeps and invokes the wrapped function again only after a
\* transient database error; any other database error and any exception that
\* is no database error is raised to the caller at once, with no sleep and no
\* further invocation after it: raised by the first invocation, it leaves
\* exactly one invocation and no delay.
C40_OnlyTransientErrorsRetried ==
    \A k \in 1..Len(attempts) :
        /\ (k < Len(attempts) \/ retry_pc = "sleep") => MentionsTransient(attempts[k])
        /\ (attempts[k] # Returned_ok /\ ~MentionsTransient(attempts[k])) =>
              /\ k = Len(attempts)
              /\ retry_pc = "raised"
              /\ retry_outcome = attempts[k]
              /\ Len(slept) = k - 1

\* a constraint violation at the first invocation of three allowed: raised at once
C40_Witness ==
    /\ retry_pc = "raised"
    /\ retry_input.max_attempts = MaxAttempts
    /\ attempts = << [class |-> "OperationalError", message |-> <<"unique", "constraint", "failed">>] >>
    /\ slept = <<>>
    /\ retry_outcome = attempts[1]

=============================================================================
